---- MODULE Spec2Model ----
(***************************************************************************)
(* A model of the QR rendering engine of jasonterlecki/qrcode:             *)
(* lib/qrRenderer (renderQrToCanvas, exportRasterImage, exportSvgMarkup    *)
(* and their helpers) and of the preview effect of QrPreview.              *)
(*                                                                         *)
(* Pixel quantities are JavaScript numbers in the source.  They are        *)
(* modelled as exact rationals [n |-> numerator, d |-> denominator]; the   *)
(* rounding error of IEEE doubles is not modelled.                         *)
(***************************************************************************)
EXTENDS Integers, Sequences, FiniteSets, TLC

VARIABLES options, env, canvas, svg, raster, geo, preview, naming, logoHook,
          batch

vars ==
  <<options, env, canvas, svg, raster, geo, preview, naming, logoHook, batch>>

\* an absent string (null, undefined)
None == "none"

\* an optional value of any other type: absent, or Some(v) with Get its value
Absent == <<>>

Some(v) == <<v>>

Get(o) == o[1]

\* no download has been named yet
IdleNaming == [value |-> <<>>, slug |-> Absent, download |-> Absent]

\* useLogoImage before its first effect: the useState defaults, no Image made
IdleLogoHook == [source |-> None, image |-> Absent, status |-> "idle", loads |-> <<>>]

\* the batch tool before a run: no lines entered, isBatching and batchMessage
\* at their useState defaults, nothing archived, nothing downloaded
IdleBatch ==
  [contentType |-> "url", lines |-> <<>>, jobs |-> <<>>, next |-> 0,
   isBatching |-> FALSE, batchMessage |-> Absent, zip |-> <<>>, archive |-> Absent,
   seconds |-> 0]

(***************************************************************************)
(* Exact rational arithmetic standing for JavaScript number arithmetic.    *)
(***************************************************************************)
RECURSIVE GCD(_, _)
GCD(a, b) == IF b = 0 THEN a ELSE GCD(b, a % b)

Abs(a) == IF a < 0 THEN -a ELSE a

\* n/d with the common factor g taken out
Reduce(n, d, g) == [n |-> n \div g, d |-> d \div g]

\* the fraction n/d in lowest terms, for d > 0
Q(n, d) == Reduce(n, d, GCD(Abs(n), d))

\* a in lowest terms: the one representation of its value
Norm(a) == IF a.d = 1 THEN a ELSE Q(a.n, a.d)

Num(k) == [n |-> k, d |-> 1]

\* a + b over the common denominator a.d * b.d / g
AddOver(a, b, g) ==
  [n |-> a.n * (b.d \div g) + b.n * (a.d \div g), d |-> a.d * (b.d \div g)]

\* sums and differences are taken over a common denominator and are not
\* reduced further
Add(a, b) ==
  IF a.d = b.d THEN [n |-> a.n + b.n, d |-> a.d] ELSE AddOver(a, b, GCD(a.d, b.d))

\* k * a for an integer k
Times(k, a) == [n |-> k * a.n, d |-> a.d]

Neg(a) == [n |-> -a.n, d |-> a.d]

Sub(a, b) == Add(a, Neg(b))

\* a * b with the cross factors g1 of a.n, b.d and g2 of b.n, a.d taken out
MulOver(a, b, g1, g2) ==
  [n |-> (a.n \div g1) * (b.n \div g2), d |-> (a.d \div g2) * (b.d \div g1)]

Mul(a, b) == MulOver(a, b, GCD(Abs(a.n), b.d), GCD(Abs(b.n), a.d))

\* 1 / b for b # 0
Inverse(b) == IF b.n < 0 THEN [n |-> -b.d, d |-> -b.n] ELSE [n |-> b.d, d |-> b.n]

\* a / b for b # 0
Div(a, b) == Mul(a, Inverse(b))

\* a < b compared over the common denominator a.d * b.d / g
LtOver(a, b, g) == a.n * (b.d \div g) < b.n * (a.d \div g)

Lt(a, b) == IF a.d = b.d THEN a.n < b.n ELSE LtOver(a, b, GCD(a.d, b.d))

Le(a, b) == ~Lt(b, a)

Eq(a, b) == Norm(a) = Norm(b)

Max(a, b) == IF Lt(a, b) THEN b ELSE a

Min(a, b) == IF Lt(b, a) THEN b ELSE a

\* Math.round(a), and Math.floor(a + 0.5): the nearest integer, halves rounded up
Round(a) == (2 * a.n + a.d) \div (2 * a.d)

IsInt(a) == a.n % a.d = 0

\* the decimal constants of the source, as fractions in lowest terms
F0_045 == [n |-> 9, d |-> 200]

F0_06 == [n |-> 3, d |-> 50]

F0_08 == [n |-> 2, d |-> 25]

F0_12 == [n |-> 3, d |-> 25]

F0_15 == [n |-> 3, d |-> 20]

F0_2 == [n |-> 1, d |-> 5]

F0_25 == [n |-> 1, d |-> 4]

F0_3 == [n |-> 3, d |-> 10]

F0_35 == [n |-> 7, d |-> 20]

F0_4 == [n |-> 2, d |-> 5]

F0_45 == [n |-> 9, d |-> 20]

F0_5 == [n |-> 1, d |-> 2]

F0_55 == [n |-> 11, d |-> 20]

F0_58 == [n |-> 29, d |-> 50]

F0_6 == [n |-> 3, d |-> 5]

F0_64 == [n |-> 16, d |-> 25]

F0_78 == [n |-> 39, d |-> 50]

F0_8 == [n |-> 4, d |-> 5]

F1_5 == [n |-> 3, d |-> 2]

(***************************************************************************)
(* Program constants.                                                      *)
(***************************************************************************)
QUIET_ZONE_MODULES == 4

PREVIEW_SIZE == 360

EXPORT_SIZE == 1024

Styles == {"classic", "rounded", "dots", "pills", "outline"}

STYLE_SCALE ==
  [classic |-> Num(1), rounded |-> F0_78, dots |-> F0_58, pills |-> F0_64,
   outline |-> F0_6]

getStyleScale(style) == IF style \in DOMAIN STYLE_SCALE THEN STYLE_SCALE[style] ELSE Num(1)

(***************************************************************************)
(* Bounds of the model.                                                    *)
(***************************************************************************)
\* QR versions 1..MaxVersion: matrices of 17 + 4 * version modules a side
MaxVersion == 1

\* data modules follow diagonal stripes of period MaxRun + 1: runs of up to
\* MaxRun dark cells between light ones, or no light cell at all
MaxRun == 3

(***************************************************************************)
(* The module matrix.  A payload (options.text) stands for the symbol the  *)
(* external encoder makes of it: its version, and the pattern of its data  *)
(* modules.  The three finder patterns are the fixed 7x7 nested squares.   *)
(***************************************************************************)
Payloads ==
  [encodable : {TRUE}, version : 1..MaxVersion, run : 0..(MaxRun + 1)]
  \cup [encodable : {FALSE}, version : {1}, run : {0}]

\* a faulty variant: the bottom-right corner counted as a fourth finder zone
isFinderModuleFourCorners(x, y, size) ==
  (x < 7 \/ x >= size - 7) /\ (y < 7 \/ y >= size - 7)

isFinderModule(x, y, size) ==
  LET inTop == y < 7
      inBottom == y >= size - 7
      inLeft == x < 7
      inRight == x >= size - 7
  IN  (inTop /\ inLeft) \/ (inTop /\ inRight) \/ (inBottom /\ inLeft)

\* darkness of a cell of a finder pattern, (i, j) relative to its corner
FinderDark(i, j) ==
  \/ i \in {0, 6} \/ j \in {0, 6}
  \/ (i \in 2..4 /\ j \in 2..4)

\* darkness of a data cell: diagonal stripes of text.run dark cells
DataDark(text, x, y) ==
  ((x + 2 * y) % (MaxRun + 1)) < text.run

\* QRCode.create(text, {errorCorrectionLevel}): the symbol, or a throw (ok
\* false) for a payload the encoder cannot hold
QRCodeCreate(text, level) ==
  IF ~text.encodable THEN [ok |-> FALSE, size |-> 0, data |-> <<>>, level |-> level]
  ELSE LET size == 17 + 4 * text.version
           local(k) == IF k < 7 THEN k ELSE k - (size - 7)
       IN  [ok |-> TRUE,
            size |-> size,
            level |-> level,
            data |-> [index \in 0..(size * size - 1) |->
                        LET x == index % size
                            y == index \div size
                        IN  IF isFinderModule(x, y, size)
                            THEN FinderDark(local(x), local(y))
                            ELSE DataDark(text, x, y)]]

\* the rows buildMatrix slices out of the symbol qr
buildMatrixRows(qr) ==
  IF ~qr.ok
  THEN [ok |-> FALSE, error |-> "QRCode.create threw", size |-> 0, rows |-> <<>>,
        level |-> qr.level]
  ELSE IF qr.data = <<>>
  THEN [ok |-> FALSE, error |-> "Failed to create QR matrix", size |-> 0,
        rows |-> <<>>, level |-> qr.level]
  ELSE [ok |-> TRUE,
        error |-> None,
        size |-> qr.size,
        level |-> qr.level,
        rows |-> [y \in 0..(qr.size - 1) |->
                   [x \in 0..(qr.size - 1) |-> qr.data[y * qr.size + x]]]]

\* buildMatrix: {size, rows}, rows[y][x] the darkness of cell (x, y)
buildMatrix(text, preferHighEcc) ==
  buildMatrixRows(QRCodeCreate(text, IF preferHighEcc THEN "H" ELSE "Q"))

(***************************************************************************)
(* Geometry.                                                               *)
(***************************************************************************)
\* a faulty variant: the quiet zone reserved on one side only
computeModuleSizeOneSided(moduleCount, size) ==
  LET totalModules == moduleCount + QUIET_ZONE_MODULES
      moduleSize == Div(Num(size), Num(totalModules))
      offset == Mul(moduleSize, Num(QUIET_ZONE_MODULES))
  IN  [moduleSize |-> moduleSize, offset |-> offset]

computeModuleSize(moduleCount, size) ==
  LET totalModules == moduleCount + QUIET_ZONE_MODULES * 2
      moduleSize == Div(Num(size), Num(totalModules))
      offset == Mul(moduleSize, Num(QUIET_ZONE_MODULES))
  IN  [moduleSize |-> moduleSize, offset |-> offset]

\* options.logo is Absent or Some([image, dataUrl, sizePercent, safeZone]); image
\* and dataUrl are None or a handle
HasLogo(opts) ==
  /\ opts.logo # Absent
  /\ (Get(opts.logo).image # None \/ Get(opts.logo).dataUrl # None)
  /\ Get(opts.logo).sizePercent > 0

\* a faulty variant: the safe-zone padding added on one side only
computeLogoClipOnePadding(matrixSize, moduleSize, opts) ==
  IF ~HasLogo(opts) THEN Absent
  ELSE LET qrPixelArea == Mul(Num(matrixSize), moduleSize)
           contentSize == Div(Mul(qrPixelArea, Num(Get(opts.logo).sizePercent)), Num(100))
           padding == IF Get(opts.logo).safeZone
                      THEN Max(Mul(moduleSize, F1_5), Num(8))
                      ELSE Num(0)
           size == Add(contentSize, padding)
           start == Sub(Div(Num(opts.size), Num(2)), Div(size, Num(2)))
       IN  Some([x |-> start, y |-> start, size |-> size,
                 contentSize |-> contentSize, padding |-> padding])

computeLogoClip(matrixSize, moduleSize, opts) ==
  IF ~HasLogo(opts) THEN Absent
  ELSE LET qrPixelArea == Mul(Num(matrixSize), moduleSize)
           contentSize == Div(Mul(qrPixelArea, Num(Get(opts.logo).sizePercent)), Num(100))
           padding == IF Get(opts.logo).safeZone
                      THEN Max(Mul(moduleSize, F1_5), Num(8))
                      ELSE Num(0)
           size == Add(contentSize, Mul(padding, Num(2)))
           start == Sub(Div(Num(opts.size), Num(2)), Div(size, Num(2)))
       IN  Some([x |-> start, y |-> start, size |-> size,
                 contentSize |-> contentSize, padding |-> padding])

\* a faulty variant: the overlap test against the inner contentSize square
moduleWithinContent(moduleX, moduleY, width, height, clip) ==
  LET right == Add(moduleX, width)
      bottom == Add(moduleY, height)
      left == Add(clip.x, clip.padding)
      top == Add(clip.y, clip.padding)
  IN  /\ Lt(moduleX, Add(left, clip.contentSize))
      /\ Lt(left, right)
      /\ Lt(moduleY, Add(top, clip.contentSize))
      /\ Lt(top, bottom)

moduleWithinClip(moduleX, moduleY, width, height, clip) ==
  LET right == Add(moduleX, width)
      bottom == Add(moduleY, height)
  IN  /\ Lt(moduleX, Add(clip.x, clip.size))
      /\ Lt(clip.x, right)
      /\ Lt(moduleY, Add(clip.y, clip.size))
      /\ Lt(clip.y, bottom)

getFinderRadius(style, size) ==
  CASE style = "dots" -> Div(size, Num(2))
    [] style = "rounded" -> Mul(size, F0_2)
    [] style = "pills" -> Mul(size, F0_25)
    [] OTHER -> Num(0)

\* a faulty variant: the fractional branch takes the rounded size for the width
\* and the height instead of the difference of the rounded edges
getAlignedRectRoundedSize(x, y, size) ==
  [x |-> Round(x), y |-> Round(y),
   width |-> IF Round(size) < 1 THEN 1 ELSE Round(size),
   height |-> IF Round(size) < 1 THEN 1 ELSE Round(size)]

getAlignedRect(x, y, size) ==
  LET precise == IsInt(size)
  IN  IF precise
      THEN [x |-> Round(x), y |-> Round(y),
            width |-> IF Round(size) < 1 THEN 1 ELSE Round(size),
            height |-> IF Round(size) < 1 THEN 1 ELSE Round(size)]
      ELSE LET x1 == Round(x)
               y1 == Round(y)
               x2 == Round(Add(x, size))
               y2 == Round(Add(y, size))
           IN  [x |-> x1, y |-> y1,
                width |-> IF x2 - x1 < 1 THEN 1 ELSE x2 - x1,
                height |-> IF y2 - y1 < 1 THEN 1 ELSE y2 - y1]

(***************************************************************************)
(* Drawing operations.  A canvas keeps the log of the calls made on its    *)
(* 2d context, an SVG document the list of its elements; both use one      *)
(* record shape.  layer: which step of the pipeline issued it; kind: the   *)
(* context call or the SVG tag; part: the piece drawn; fill: the colour;   *)
(* at: <<x, y, n>> for a shape covering the n cells (x..x+n-1, y);         *)
(* box: the x, y, width and height drawn; r: the corner radius; info: the  *)
(* text settings of a text drawing.                                        *)
(***************************************************************************)
NoInfo == [align |-> None, baseline |-> None, fontSize |-> Num(0), fontWeight |-> 0]

Op(layer, kind, part, fill, at, box, r) ==
  [layer |-> layer, kind |-> kind, part |-> part, fill |-> fill,
   at |-> at, box |-> box, r |-> r, info |-> NoInfo]

TextOp(kind, fill, at, box, info) ==
  [layer |-> "label", kind |-> kind, part |-> "text", fill |-> fill,
   at |-> at, box |-> box, r |-> Num(0), info |-> info]

\* a box holds its numbers in lowest terms
Box(x, y, w, h) == [x |-> Norm(x), y |-> Norm(y), w |-> Norm(w), h |-> Norm(h)]

NumBox(rect) == Box(Num(rect.x), Num(rect.y), Num(rect.width), Num(rect.height))

NoBox == Box(Num(0), Num(0), Num(0), Num(0))

\* the colour of a shape filled or stroked with the context's current style
CtxFill == "ctx.fillStyle"

\* ops drawn with the context's fillStyle and strokeStyle set to colour
WithFill(ops, colour) ==
  [i \in 1..Len(ops) |->
     IF ops[i].fill = CtxFill THEN [ops[i] EXCEPT !.fill = colour] ELSE ops[i]]

\* the concatenation of F(lo), F(lo + 1), ..., F(hi): Array.prototype.forEach
RECURSIVE ForEach(_, _, _)
ForEach(F(_), lo, hi) == IF lo > hi THEN <<>> ELSE F(lo) \o ForEach(F, lo + 1, hi)

(***************************************************************************)
(* Module renderer, canvas adapter.                                        *)
(***************************************************************************)
\* the constants drawPillRow and appendPillRowSvg compute before scanning a row
PillMetrics(moduleSize, styleScale) ==
  [verticalInset |-> Div(Sub(moduleSize, Mul(moduleSize, styleScale)), Num(2)),
   horizontalInset |-> Div(Sub(moduleSize, Mul(moduleSize, styleScale)), Num(2)),
   height |-> Mul(moduleSize, styleScale)]

\* flushRun of drawPillRow: the rounded rectangle of the run [runStart, runEnd)
drawPillFlush(runStart, runEnd, rowIndex, moduleSize, offset, metrics) ==
  LET widthUnits == runEnd - runStart
      width == Sub(Times(widthUnits, moduleSize), Times(2, metrics.horizontalInset))
      drawX == Add(Add(offset, Times(runStart, moduleSize)), metrics.horizontalInset)
      drawY == Add(Add(offset, Times(rowIndex, moduleSize)), metrics.verticalInset)
  IN  IF widthUnits <= 0 THEN <<>>
      ELSE << Op("module", "roundedRect", "run", CtxFill,
                 <<runStart, rowIndex, widthUnits>>,
                 Box(drawX, drawY, Max(width, Mul(moduleSize, F0_35)), metrics.height),
                 Div(metrics.height, Num(2))) >>

\* the row.forEach of drawPillRow from cell x on, with the run state runStart
RECURSIVE drawPillScan(_, _, _, _, _, _, _, _, _)
drawPillScan(row, x, runStart, rowIndex, moduleSize, offset, matrixSize, metrics, logoClip) ==
  IF x >= Len(row) THEN <<>>
  ELSE
    LET isDark == row[x + 1]
        baseX == Add(offset, Times(x, moduleSize))
        baseY == Add(offset, Times(rowIndex, moduleSize))
        flush(runEnd) == drawPillFlush(runStart, runEnd, rowIndex, moduleSize, offset, metrics)
        rest(rs) == drawPillScan(row, x + 1, rs, rowIndex, moduleSize, offset,
                                 matrixSize, metrics, logoClip)
    IN  IF isDark /\ isFinderModule(x, rowIndex, matrixSize)
        THEN IF runStart # -1 THEN flush(x) \o rest(-1) ELSE rest(runStart)
        ELSE IF isDark
        THEN IF logoClip # Absent /\ moduleWithinClip(baseX, baseY, moduleSize, moduleSize, Get(logoClip))
             THEN IF runStart # -1 THEN flush(x) \o rest(-1) ELSE rest(runStart)
             ELSE LET started == IF runStart = -1 THEN x ELSE runStart
                      isLast == x = Len(row) - 1
                  IN  IF isLast
                      THEN drawPillFlush(started, x + 1, rowIndex, moduleSize, offset, metrics)
                           \o rest(-1)
                      ELSE rest(started)
        ELSE IF runStart # -1 THEN flush(x) \o rest(-1) ELSE rest(runStart)

\* a faulty variant: one rounded rectangle per eligible cell, runs never merged
drawPillRowUnmerged(row, rowIndex, moduleSize, offset, matrixSize, styleScale, logoClip) ==
  LET Cell(x) ==
        IF /\ row[x + 1]
           /\ ~isFinderModule(x, rowIndex, matrixSize)
           /\ ~(logoClip # Absent /\
                 moduleWithinClip(Add(offset, Times(x, moduleSize)),
                                  Add(offset, Times(rowIndex, moduleSize)),
                                  moduleSize, moduleSize, Get(logoClip)))
        THEN drawPillFlush(x, x + 1, rowIndex, moduleSize, offset,
                           PillMetrics(moduleSize, styleScale))
        ELSE <<>>
  IN  ForEach(Cell, 0, Len(row) - 1)

drawPillRow(row, rowIndex, moduleSize, offset, matrixSize, styleScale, logoClip) ==
  drawPillScan(row, 0, -1, rowIndex, moduleSize, offset, matrixSize,
               PillMetrics(moduleSize, styleScale), logoClip)

\* the size and inset of a rounded or outline module shape
ShapeMetrics(moduleSize, styleScale) ==
  LET size == Mul(moduleSize, styleScale)
  IN  [size |-> size, inset |-> Div(Sub(moduleSize, size), Num(2))]

\* the body of the row.forEach of drawModules: the shape of cell (x, y), if any
drawModuleCell(isDark, x, y, matrixSize, style, geometry, logoClip, shape) ==
  LET moduleSize == geometry.moduleSize
      offset == geometry.offset
      styleScale == getStyleScale(style)
      baseX == Add(offset, Times(x, moduleSize))
      baseY == Add(offset, Times(y, moduleSize))
      rect == getAlignedRect(baseX, baseY, moduleSize)
      adjusted == getAlignedRect(Add(baseX, shape.inset), Add(baseY, shape.inset), shape.size)
  IN  IF ~isDark THEN <<>>
      ELSE IF logoClip # Absent /\ moduleWithinClip(baseX, baseY, moduleSize, moduleSize, Get(logoClip))
      THEN <<>>
      ELSE IF isFinderModule(x, y, matrixSize) THEN <<>>
      ELSE CASE style = "dots" ->
                  LET radius == Div(Mul(Num(rect.width), styleScale), Num(2))
                      centerX == Add(Num(rect.x), Div(Num(rect.width), Num(2)))
                      centerY == Add(Num(rect.y), Div(Num(rect.height), Num(2)))
                  IN  << Op("module", "arc", "cell", CtxFill, <<x, y, 1>>,
                            Box(Sub(centerX, radius), Sub(centerY, radius),
                                Times(2, radius), Times(2, radius)), radius) >>
             [] style = "rounded" ->
                  << Op("module", "roundedRect", "cell", CtxFill, <<x, y, 1>>,
                        NumBox(adjusted), Mul(shape.size, F0_35)) >>
             [] style = "outline" ->
                  << Op("module", "strokeRect", "cell", CtxFill, <<x, y, 1>>,
                        NumBox(adjusted), Max(Num(1), Mul(shape.size, F0_3))) >>
             [] OTHER ->
                  << Op("module", "fillRect", "cell", CtxFill, <<x, y, 1>>,
                        NumBox(rect), Num(0)) >>

drawModules(matrix, opts, geometry, logoClip) ==
  LET styleScale == getStyleScale(opts.style)
      shape == ShapeMetrics(geometry.moduleSize, styleScale)
      Row(y) ==
        IF opts.style = "pills"
        THEN drawPillRow([i \in 1..matrix.size |-> matrix.rows[y][i - 1]], y,
                         geometry.moduleSize, geometry.offset, matrix.size,
                         styleScale, logoClip)
        ELSE LET Cell(x) == drawModuleCell(matrix.rows[y][x], x, y, matrix.size,
                                           opts.style, geometry, logoClip, shape)
             IN  ForEach(Cell, 0, matrix.size - 1)
  IN  WithFill(ForEach(Row, 0, matrix.size - 1), opts.foreground)

(***************************************************************************)
(* Finder patterns, canvas adapter.                                        *)
(***************************************************************************)
drawFinderPattern(x, y, moduleSize, opts) ==
  LET outerSize == Mul(moduleSize, Num(7))
      middleSize == Mul(moduleSize, Num(5))
      centerSize == Mul(moduleSize, Num(3))
      radius == getFinderRadius(opts.style, outerSize)
      outerRect == getAlignedRect(x, y, outerSize)
      middleRect == getAlignedRect(Add(x, moduleSize), Add(y, moduleSize), middleSize)
      centerRect == getAlignedRect(Add(x, Mul(moduleSize, Num(2))),
                                   Add(y, Mul(moduleSize, Num(2))), centerSize)
  IN  << Op("finder", "roundedRect", "outer", opts.foreground, <<>>,
            NumBox(outerRect), radius),
         IF opts.transparentBackground
         THEN Op("finder", "clearRect", "middle", None, <<>>, NumBox(middleRect), Num(0))
         ELSE Op("finder", "roundedRect", "middle", opts.background, <<>>,
                 NumBox(middleRect),
                 Min(Mul(radius, F0_8), Div(Num(middleRect.width), Num(2)))),
         Op("finder", "roundedRect", "center", opts.foreground, <<>>,
            NumBox(centerRect),
            Min(Mul(radius, F0_6), Div(Num(centerRect.width), Num(2)))) >>

\* the three corners a finder pattern is drawn at, as pixel positions
FinderPositions(matrixSize, geometry) ==
  LET maxIndex == matrixSize - 7
      far == Add(geometry.offset, Mul(Num(maxIndex), geometry.moduleSize))
  IN  << <<geometry.offset, geometry.offset>>,
         <<far, geometry.offset>>,
         <<geometry.offset, far>> >>

drawFinderPatterns(matrixSize, geometry, opts) ==
  LET positions == FinderPositions(matrixSize, geometry)
      At(i) == drawFinderPattern(positions[i][1], positions[i][2], geometry.moduleSize, opts)
  IN  ForEach(At, 1, Len(positions))

(***************************************************************************)
(* Logo overlay, canvas adapter.                                           *)
(***************************************************************************)
\* a faulty variant: the image drawn before its safe-zone backing
drawLogoImageFirst(opts, logoClip) ==
  IF opts.logo = Absent \/ logoClip = Absent THEN <<>>
  ELSE IF Get(opts.logo).image = None THEN <<>>
  ELSE LET clip == Get(logoClip)
       IN  << Op("logo", "drawImage", "image", Get(opts.logo).image, <<>>,
                 Box(Add(clip.x, clip.padding), Add(clip.y, clip.padding),
                     clip.contentSize, clip.contentSize), Num(0)) >>
           \o (IF Get(opts.logo).safeZone /\ Lt(Num(0), clip.padding)
               THEN << Op("logo", "roundedRect", "safeZone", "#ffffff", <<>>,
                          Box(clip.x, clip.y, clip.size, clip.size),
                          Mul(clip.size, F0_15)) >>
               ELSE <<>>)

drawLogo(opts, logoClip) ==
  IF opts.logo = Absent \/ logoClip = Absent THEN <<>>
  ELSE IF Get(opts.logo).image = None THEN <<>>
  ELSE LET clip == Get(logoClip)
       IN  (IF Get(opts.logo).safeZone /\ Lt(Num(0), clip.padding)
            THEN << Op("logo", "roundedRect", "safeZone", "#ffffff", <<>>,
                       Box(clip.x, clip.y, clip.size, clip.size),
                       Mul(clip.size, F0_15)) >>
            ELSE <<>>)
           \o << Op("logo", "drawImage", "image", Get(opts.logo).image, <<>>,
                    Box(Add(clip.x, clip.padding), Add(clip.y, clip.padding),
                        clip.contentSize, clip.contentSize), Num(0)) >>

(***************************************************************************)
(* Label layout.  A caption (label.text) is modelled by its words, each a  *)
(* number of characters, and its length in characters; a line of the       *)
(* layout by the words on it, joined by single spaces.                     *)
(***************************************************************************)
LABEL_FONT_SCALE == [sm |-> F0_045, md |-> F0_06, lg |-> F0_08]

RECURSIVE SumSeq(_)
SumSeq(s) == IF s = <<>> THEN 0 ELSE Head(s) + SumSeq(Tail(s))

\* the number of characters of a line
LineChars(line) == IF line = <<>> THEN 0 ELSE SumSeq(line) + Len(line) - 1

\* ctx.measureText(line).width under a font of fontSize px: the environment's
\* average glyph width, a fraction of the font size, per character
measureText(line, fontSize, glyph) == Mul(Num(LineChars(line) * fontSize), glyph)

\* a faulty variant: the test `|| !current` left out, so a first word that does
\* not fit pushes the empty current line
RECURSIVE WrapWordsNoEmptyTest(_, _, _, _, _)
WrapWordsNoEmptyTest(words, current, maxWidth, fontSize, glyph) ==
  IF words = <<>> THEN (IF current # <<>> THEN <<current>> ELSE <<>>)
  ELSE LET word == Head(words)
           tentative == IF current # <<>> THEN Append(current, word) ELSE <<word>>
       IN  IF Le(measureText(tentative, fontSize, glyph), maxWidth)
           THEN WrapWordsNoEmptyTest(Tail(words), tentative, maxWidth, fontSize, glyph)
           ELSE <<current>>
                  \o WrapWordsNoEmptyTest(Tail(words), <<word>>, maxWidth, fontSize, glyph)

\* the words.forEach of computeLabelLayout: the lines pushed, then current
RECURSIVE WrapWords(_, _, _, _, _)
WrapWords(words, current, maxWidth, fontSize, glyph) ==
  IF words = <<>> THEN (IF current # <<>> THEN <<current>> ELSE <<>>)
  ELSE LET word == Head(words)
           tentative == IF current # <<>> THEN Append(current, word) ELSE <<word>>
       IN  IF Le(measureText(tentative, fontSize, glyph), maxWidth) \/ current = <<>>
           THEN WrapWords(Tail(words), tentative, maxWidth, fontSize, glyph)
           ELSE <<current>> \o WrapWords(Tail(words), <<word>>, maxWidth, fontSize, glyph)

\* a faulty variant: every line kept
FirstNUncut(s, k) == s

\* lines.slice(0, k)
FirstN(s, k) == IF Len(s) <= k THEN s ELSE SubSeq(s, 1, k)

RECURSIVE MaxOf(_)
MaxOf(s) == IF s = <<>> THEN Num(0) ELSE Max(Head(s), MaxOf(Tail(s)))

\* a faulty variant: the caption tested for emptiness without trimming it
computeLabelLayoutUntrimmed(labelOpt, width, e) ==
  IF labelOpt = Absent \/ Get(labelOpt).text.length = 0
  THEN [lines |-> <<>>, lineWidths |-> <<>>, contentWidth |-> Num(0),
        height |-> Num(0), font |-> [weight |-> 0, px |-> 0], maxWidth |-> Num(width),
        lineHeight |-> Num(0)]
  ELSE
    LET label == Get(labelOpt)
        fontSize == Round(Mul(LABEL_FONT_SCALE[label.size], Num(width)))
        lineHeight == Add(Num(fontSize), Max(Num(8), Mul(Num(fontSize), F0_12)))
        font == [weight |-> IF label.weight = "bold" THEN 700 ELSE 500, px |-> fontSize]
    IN  IF ~e.measure
        THEN LET fallbackWidth ==
                   Min(Num(width - 32), Mul(Num(label.text.length * fontSize), F0_45))
             IN  [lines |-> <<label.text.words>>, lineWidths |-> <<fallbackWidth>>,
                  contentWidth |-> fallbackWidth,
                  height |-> Add(lineHeight, Num(24)), font |-> font,
                  maxWidth |-> Num(width), lineHeight |-> lineHeight]
        ELSE LET maxWidth == Num(width - 32)
                 lines == WrapWords(label.text.words, <<>>, maxWidth, fontSize, e.glyph)
                 trimmedLines == FirstN(lines, 3)
                 lineWidths == [i \in 1..Len(trimmedLines) |->
                                  Min(maxWidth, measureText(trimmedLines[i], fontSize, e.glyph))]
             IN  [lines |-> trimmedLines, lineWidths |-> lineWidths,
                  contentWidth |-> MaxOf(lineWidths),
                  height |-> Add(Mul(Num(Len(trimmedLines)), lineHeight), Num(8)),
                  font |-> font, maxWidth |-> maxWidth, lineHeight |-> lineHeight]

\* e: the environment; e.measure is whether a 2d context for measuring exists
computeLabelLayout(labelOpt, width, e) ==
  IF labelOpt = Absent \/ Get(labelOpt).text.words = <<>>
  THEN [lines |-> <<>>, lineWidths |-> <<>>, contentWidth |-> Num(0),
        height |-> Num(0), font |-> [weight |-> 0, px |-> 0], maxWidth |-> Num(width),
        lineHeight |-> Num(0)]
  ELSE
    LET label == Get(labelOpt)
        fontSize == Round(Mul(LABEL_FONT_SCALE[label.size], Num(width)))
        lineHeight == Add(Num(fontSize), Max(Num(8), Mul(Num(fontSize), F0_12)))
        font == [weight |-> IF label.weight = "bold" THEN 700 ELSE 500, px |-> fontSize]
    IN  IF ~e.measure
        THEN LET fallbackWidth ==
                   Min(Num(width - 32), Mul(Num(label.text.length * fontSize), F0_45))
             IN  [lines |-> <<label.text.words>>, lineWidths |-> <<fallbackWidth>>,
                  contentWidth |-> fallbackWidth,
                  height |-> Add(lineHeight, Num(24)), font |-> font,
                  maxWidth |-> Num(width), lineHeight |-> lineHeight]
        ELSE LET maxWidth == Num(width - 32)
                 lines == WrapWords(label.text.words, <<>>, maxWidth, fontSize, e.glyph)
                 trimmedLines == FirstN(lines, 3)
                 lineWidths == [i \in 1..Len(trimmedLines) |->
                                  Min(maxWidth, measureText(trimmedLines[i], fontSize, e.glyph))]
             IN  [lines |-> trimmedLines, lineWidths |-> lineWidths,
                  contentWidth |-> MaxOf(lineWidths),
                  height |-> Add(Mul(Num(Len(trimmedLines)), lineHeight), Num(8)),
                  font |-> font, maxWidth |-> maxWidth, lineHeight |-> lineHeight]

computeLabelX(size, padding, align) ==
  IF align = "left" THEN Num(padding)
  ELSE IF align = "right" THEN Num(size - padding)
  ELSE Div(Num(size), Num(2))

computeLabelRectX(anchorX, rectWidth, paddingX, align) ==
  IF align = "left" THEN Sub(anchorX, Num(paddingX))
  ELSE IF align = "right" THEN Add(Sub(anchorX, rectWidth), Num(paddingX))
  ELSE Sub(anchorX, Div(rectWidth, Num(2)))

mapLabelAlign(align) ==
  CASE align = "left" -> "start"
    [] align = "right" -> "end"
    [] OTHER -> "middle"

IntMax(a, b) == IF a < b THEN b ELSE a

(***************************************************************************)
(* Label overlay, canvas adapter.                                          *)
(***************************************************************************)
drawLabel(layout, opts, geometry, matrixSize) ==
  IF opts.label = Absent \/ Len(layout.lines) = 0 THEN <<>>
  ELSE
    LET paddingX == IntMax(10, Round(Mul(layout.lineHeight, F0_55)))
        paddingY == IntMax(6, Round(Mul(layout.lineHeight, F0_2)))
        paddingOffset == 18
        qrBottom == Add(geometry.offset, Mul(geometry.moduleSize, Num(matrixSize)))
        baseY == Sub(qrBottom, Num(IntMax(4, Round(Mul(layout.lineHeight, F0_25)))))
        labelOptions == Get(opts.label)
        textColor == IF labelOptions.invert THEN opts.background ELSE opts.foreground
        anchorX == computeLabelX(opts.size, paddingOffset, labelOptions.align)
        Line(index) ==
          LET lineWidth == layout.lineWidths[index + 1]
              lineY == Add(baseY, Mul(Num(index), layout.lineHeight))
              rectWidth == Add(lineWidth, Num(paddingX * 2))
              rectHeight == Add(layout.lineHeight, Num(paddingY))
              rectX == computeLabelRectX(anchorX, rectWidth, paddingX, labelOptions.align)
          IN  (IF labelOptions.invert
               THEN << Op("label", "roundedRect", "bar", opts.foreground, <<index>>,
                          Box(rectX, Sub(lineY, Div(Num(paddingY), Num(2))),
                              rectWidth, rectHeight),
                          Mul(rectHeight, F0_45)) >>
               ELSE <<>>)
              \o << TextOp("fillText", textColor, <<index>>,
                           Box(anchorX, lineY, lineWidth, Num(layout.font.px)),
                           [align |-> labelOptions.align, baseline |-> "top",
                            fontSize |-> Num(layout.font.px),
                            fontWeight |-> layout.font.weight]) >>
    IN  ForEach(Line, 0, Len(layout.lines) - 1)

(***************************************************************************)
(* Surface adapter, canvas.                                                *)
(***************************************************************************)
\* a faulty variant: only a decoded image asks for the higher correction level
prepareCommonPiecesImageOnly(opts, size, e) ==
  [matrix |-> buildMatrix(opts.text,
                          opts.logo # Absent /\ Get(opts.logo).image # None),
   labelLayout |-> computeLabelLayout(opts.label, size, e)]

prepareCommonPieces(opts, size, e) ==
  [matrix |-> buildMatrix(opts.text,
                          opts.logo # Absent /\
                            (Get(opts.logo).image # None \/ Get(opts.logo).dataUrl # None)),
   labelLayout |-> computeLabelLayout(opts.label, size, e)]

\* what a render derived before drawing: compared between the adapters
Layout(matrix, geometry, logoClip, labelLayout) ==
  Some([matrixSize |-> matrix.size, level |-> matrix.level, geometry |-> geometry,
        logoClip |-> logoClip, labelLayout |-> labelLayout])

NoLayout == Absent

\* a canvas nothing was drawn on: the default 300 x 150 bitmap, no style size
BlankCanvas ==
  [width |-> 300, height |-> 150, styleWidth |-> Absent, styleHeight |-> Absent,
   ops |-> <<>>]

\* a faulty variant: the device's ratio preferred to the one requested
renderPixelRatioDeviceFirst(opts, e) ==
  IF e.devicePixelRatio # Absent THEN Get(e.devicePixelRatio)
  ELSE IF opts.pixelRatio # Absent THEN Get(opts.pixelRatio) ELSE 1

\* options.pixelRatio ?? window.devicePixelRatio ?? 1
renderPixelRatio(opts, e) ==
  IF opts.pixelRatio # Absent THEN Get(opts.pixelRatio)
  ELSE IF e.devicePixelRatio # Absent THEN Get(e.devicePixelRatio) ELSE 1

\* renderQrToCanvas sizing the canvas: the bitmap of width x height device
\* pixels, the style size in CSS pixels
renderQrToCanvasResize(size, canvasHeight, width, height) ==
  [width |-> width, height |-> height,
   styleWidth |-> Some(Num(size)), styleHeight |-> Some(canvasHeight),
   ops |-> << Op("resize", "resize", "surface", None, <<>>,
                 Box(Num(0), Num(0), Num(width), Num(height)), Num(0)) >>]

\* renderQrToCanvas drawing on the 2d context, surface the whole canvas
renderQrToCanvasDraw(opts, matrix, geometry, logoClip, labelLayout, surface) ==
  << Op("clear", "clearRect", "surface", None, <<>>, surface, Num(0)) >>
  \o (IF ~opts.transparentBackground
      THEN << Op("background", "fillRect", "surface", opts.background, <<>>,
                 surface, Num(0)) >>
      ELSE <<>>)
  \o drawFinderPatterns(matrix.size, geometry, opts)
  \o drawModules(matrix, opts, geometry, logoClip)
  \o drawLogo(opts, logoClip)
  \o drawLabel(labelLayout, opts, geometry, matrix.size)

\* a faulty variant: the canvas sized before the matrix is known to exist
renderQrToCanvasSizedResizeFirst(cv, opts, e, matrix, labelLayout, geometry, logoClip, devicePixelRatio, canvasHeight, resized) ==
  IF ~matrix.ok
  THEN [settled |-> "rejected", error |-> matrix.error,
        canvas |-> resized, layout |-> NoLayout, ratio |-> 0]
  ELSE IF ~e.ctx2d
  THEN [settled |-> "rejected", error |-> "Canvas context unavailable",
        canvas |-> resized,
        layout |-> Layout(matrix, geometry, logoClip, labelLayout),
        ratio |-> devicePixelRatio]
  ELSE [settled |-> "resolved", error |-> None,
        canvas |-> [resized EXCEPT
                      !.ops = @ \o renderQrToCanvasDraw(
                                     opts, matrix, geometry, logoClip, labelLayout,
                                     Box(Num(0), Num(0), Num(opts.size), canvasHeight))],
        layout |-> Layout(matrix, geometry, logoClip, labelLayout),
        ratio |-> devicePixelRatio]

\* renderQrToCanvas once the matrix, the layout and the canvas size are known
renderQrToCanvasSized(cv, opts, e, matrix, labelLayout, geometry, logoClip, devicePixelRatio, canvasHeight, resized) ==
  IF ~matrix.ok
  THEN [settled |-> "rejected", error |-> matrix.error,
        canvas |-> cv, layout |-> NoLayout, ratio |-> 0]
  ELSE IF ~e.ctx2d
  THEN [settled |-> "rejected", error |-> "Canvas context unavailable",
        canvas |-> resized,
        layout |-> Layout(matrix, geometry, logoClip, labelLayout),
        ratio |-> devicePixelRatio]
  ELSE [settled |-> "resolved", error |-> None,
        canvas |-> [resized EXCEPT
                      !.ops = @ \o renderQrToCanvasDraw(
                                     opts, matrix, geometry, logoClip, labelLayout,
                                     Box(Num(0), Num(0), Num(opts.size), canvasHeight))],
        layout |-> Layout(matrix, geometry, logoClip, labelLayout),
        ratio |-> devicePixelRatio]

\* renderQrToCanvas once the matrix and the label layout are known
renderQrToCanvasLaidOut(cv, opts, e, matrix, labelLayout, geometry, devicePixelRatio, canvasHeight) ==
  renderQrToCanvasSized(
    cv, opts, e, matrix, labelLayout, geometry,
    computeLogoClip(matrix.size, geometry.moduleSize, opts),
    devicePixelRatio, canvasHeight,
    renderQrToCanvasResize(opts.size, canvasHeight,
                           Round(Num(opts.size * devicePixelRatio)),
                           Round(Mul(canvasHeight, Num(devicePixelRatio)))))

\* renderQrToCanvas after prepareCommonPieces
renderQrToCanvasPieces(cv, opts, e, pieces) ==
  renderQrToCanvasLaidOut(
    cv, opts, e, pieces.matrix, pieces.labelLayout,
    computeModuleSize(pieces.matrix.size, opts.size),
    renderPixelRatio(opts, e),
    Add(Num(opts.size), pieces.labelLayout.height))

\* renderQrToCanvas(cv, opts): the canvas afterwards and how the promise settles
renderQrToCanvas(cv, opts, e) ==
  renderQrToCanvasPieces(cv, opts, e, prepareCommonPieces(opts, opts.size, e))

(***************************************************************************)
(* Surface adapter, vector.  The markup is the sequence of its elements,   *)
(* in the order exportSvgMarkup pushes them onto parts.                    *)
(***************************************************************************)
\* the fill of an element that inherits it from the enclosing <g>
GroupFill == "g.fill"

\* Number(radius.toFixed(2))
ToFixed2(radius) == Q(Round(Times(100, radius)), 100)

\* the radius of the rx and ry attributes, 0 when no attribute is written
buildRadiusAttr(radius) ==
  IF Le(radius, Num(0)) THEN Num(0) ELSE ToFixed2(radius)

appendFinderPatternSvg(x, y, moduleSize, opts, foreground) ==
  LET outerSize == Times(7, moduleSize)
      middleSize == Times(5, moduleSize)
      centerSize == Times(3, moduleSize)
      radius == getFinderRadius(opts.style, outerSize)
      outerAttr == buildRadiusAttr(radius)
      middleAttr == buildRadiusAttr(Min(Mul(radius, F0_8), Div(middleSize, Num(2))))
      innerAttr == buildRadiusAttr(Min(Mul(radius, F0_6), Div(centerSize, Num(2))))
  IN  << Op("finder", "rect", "outer", foreground, <<>>,
            Box(x, y, outerSize, outerSize), outerAttr) >>
      \o (IF ~opts.transparentBackground
          THEN << Op("finder", "rect", "middle", opts.background, <<>>,
                     Box(Add(x, moduleSize), Add(y, moduleSize), middleSize, middleSize),
                     middleAttr) >>
          ELSE <<>>)
      \o << Op("finder", "rect", "center", foreground, <<>>,
               Box(Add(x, Times(2, moduleSize)), Add(y, Times(2, moduleSize)),
                   centerSize, centerSize), innerAttr) >>

appendFinderPatternsSvg(matrixSize, geometry, opts) ==
  LET moduleSize == geometry.moduleSize
      offset == geometry.offset
      maxIndex == matrixSize - 7
      positions == << <<offset, offset>>,
                      <<Add(offset, Times(maxIndex, moduleSize)), offset>>,
                      <<offset, Add(offset, Times(maxIndex, moduleSize))>> >>
      At(i) == appendFinderPatternSvg(positions[i][1], positions[i][2], moduleSize,
                                      opts, opts.foreground)
  IN  ForEach(At, 1, Len(positions))

\* flushRun of appendPillRowSvg: the <rect> of the run [runStart, runEnd)
appendPillFlushSvg(runStart, runEnd, rowIndex, moduleSize, offset, metrics) ==
  LET widthUnits == runEnd - runStart
      width == Sub(Times(widthUnits, moduleSize), Times(2, metrics.horizontalInset))
      drawX == Add(Add(offset, Times(runStart, moduleSize)), metrics.horizontalInset)
      drawY == Add(Add(offset, Times(rowIndex, moduleSize)), metrics.verticalInset)
      rx == Div(metrics.height, Num(2))
  IN  IF widthUnits <= 0 THEN <<>>
      ELSE << Op("module", "rect", "run", GroupFill, <<runStart, rowIndex, widthUnits>>,
                 Box(drawX, drawY, Max(width, Mul(moduleSize, F0_35)), metrics.height),
                 rx) >>

\* the row.forEach of appendPillRowSvg from cell x on, with the run state runStart
RECURSIVE appendPillScanSvg(_, _, _, _, _, _, _, _, _)
appendPillScanSvg(row, x, runStart, rowIndex, moduleSize, offset, matrixSize, metrics, logoClip) ==
  IF x >= Len(row) THEN <<>>
  ELSE
    LET isDark == row[x + 1]
        baseX == Add(offset, Times(x, moduleSize))
        baseY == Add(offset, Times(rowIndex, moduleSize))
        flush(runEnd) == appendPillFlushSvg(runStart, runEnd, rowIndex, moduleSize,
                                            offset, metrics)
        rest(rs) == appendPillScanSvg(row, x + 1, rs, rowIndex, moduleSize, offset,
                                      matrixSize, metrics, logoClip)
    IN  IF isDark /\ isFinderModule(x, rowIndex, matrixSize)
        THEN IF runStart # -1 THEN flush(x) \o rest(-1) ELSE rest(runStart)
        ELSE IF isDark
        THEN IF logoClip # Absent /\ moduleWithinClip(baseX, baseY, moduleSize, moduleSize, Get(logoClip))
             THEN IF runStart # -1 THEN flush(x) \o rest(-1) ELSE rest(runStart)
             ELSE LET started == IF runStart = -1 THEN x ELSE runStart
                      isLast == x = Len(row) - 1
                  IN  IF isLast
                      THEN appendPillFlushSvg(started, x + 1, rowIndex, moduleSize,
                                              offset, metrics)
                           \o rest(-1)
                      ELSE rest(started)
        ELSE IF runStart # -1 THEN flush(x) \o rest(-1) ELSE rest(runStart)

\* a faulty variant: the vector pills ignore the logo clip
appendPillRowSvgUnclipped(row, rowIndex, moduleSize, offset, matrixSize, styleScale, logoClip) ==
  appendPillScanSvg(row, 0, -1, rowIndex, moduleSize, offset, matrixSize,
                    PillMetrics(moduleSize, styleScale), Absent)

appendPillRowSvg(row, rowIndex, moduleSize, offset, matrixSize, styleScale, logoClip) ==
  appendPillScanSvg(row, 0, -1, rowIndex, moduleSize, offset, matrixSize,
                    PillMetrics(moduleSize, styleScale), logoClip)

\* the body of the row.forEach of exportSvgMarkup: the element of cell (x, y), if any
appendModuleCellSvg(isDark, x, y, matrixSize, style, geometry, logoClip, styleScale, shape) ==
  LET moduleSize == geometry.moduleSize
      baseX == Add(geometry.offset, Times(x, moduleSize))
      baseY == Add(geometry.offset, Times(y, moduleSize))
  IN  IF ~isDark THEN <<>>
      ELSE IF isFinderModule(x, y, matrixSize) THEN <<>>
      ELSE IF logoClip # Absent /\ moduleWithinClip(baseX, baseY, moduleSize, moduleSize, Get(logoClip))
      THEN <<>>
      ELSE CASE style = "dots" ->
                  LET radius == Div(Mul(moduleSize, styleScale), Num(2))
                      cx == Add(baseX, Div(moduleSize, Num(2)))
                      cy == Add(baseY, Div(moduleSize, Num(2)))
                  IN  << Op("module", "circle", "cell", GroupFill, <<x, y, 1>>,
                            Box(Sub(cx, radius), Sub(cy, radius),
                                Times(2, radius), Times(2, radius)), radius) >>
             [] style = "rounded" ->
                  << Op("module", "rect", "cell", GroupFill, <<x, y, 1>>,
                        Box(Add(baseX, shape.inset), Add(baseY, shape.inset),
                            shape.size, shape.size),
                        Mul(shape.size, F0_35)) >>
             [] style = "outline" ->
                  LET strokeWidth == Max(Num(1), Mul(shape.size, F0_3))
                  IN  << Op("module", "strokeRect", "cell", GroupFill, <<x, y, 1>>,
                            Box(Add(baseX, shape.inset), Add(baseY, shape.inset),
                                shape.size, shape.size),
                            Div(strokeWidth, F1_5)) >>
             [] OTHER ->
                  << Op("module", "rect", "cell", GroupFill, <<x, y, 1>>,
                        Box(baseX, baseY, moduleSize, moduleSize), Num(0)) >>

\* the logo elements of exportSvgMarkup
appendLogoSvg(opts, logoClip) ==
  IF opts.logo = Absent \/ logoClip = Absent THEN <<>>
  ELSE IF Get(opts.logo).dataUrl = None THEN <<>>
  ELSE LET clip == Get(logoClip)
       IN  (IF Get(opts.logo).safeZone /\ Lt(Num(0), clip.padding)
            THEN << Op("logo", "rect", "safeZone", "#ffffff", <<>>,
                       Box(clip.x, clip.y, clip.size, clip.size),
                       Mul(clip.size, F0_15)) >>
            ELSE <<>>)
           \o << Op("logo", "image", "image", Get(opts.logo).dataUrl, <<>>,
                    Box(Add(clip.x, clip.padding), Add(clip.y, clip.padding),
                        clip.contentSize, clip.contentSize), Num(0)) >>

\* the label elements of exportSvgMarkup
appendLabelSvg(labelLayout, opts, geometry, matrixSize) ==
  IF Len(labelLayout.lines) = 0 \/ opts.label = Absent THEN <<>>
  ELSE
    LET labelOptions == Get(opts.label)
        padding == 18
        paddingX == IntMax(10, Round(Mul(labelLayout.lineHeight, F0_55)))
        paddingY == IntMax(6, Round(Mul(labelLayout.lineHeight, F0_2)))
        qrBottom == Add(geometry.offset, Times(matrixSize, geometry.moduleSize))
        baseY == Sub(qrBottom, Num(IntMax(4, Round(Mul(labelLayout.lineHeight, F0_25)))))
        textAnchor == mapLabelAlign(labelOptions.align)
        textColor == IF labelOptions.invert THEN opts.background ELSE opts.foreground
        backgroundColor == opts.foreground
        Line(index) ==
          LET y == Add(baseY, Times(index, labelLayout.lineHeight))
              x == computeLabelX(opts.size, padding, labelOptions.align)
              lineWidth == labelLayout.lineWidths[index + 1]
              rectWidth == Add(lineWidth, Num(paddingX * 2))
              rectHeight == Add(labelLayout.lineHeight, Num(paddingY))
              rectX == computeLabelRectX(x, rectWidth, paddingX, labelOptions.align)
          IN  (IF labelOptions.invert
               THEN << Op("label", "rect", "bar", backgroundColor, <<index>>,
                          Box(rectX, Sub(y, Div(Num(paddingY), Num(2))),
                              rectWidth, rectHeight),
                          buildRadiusAttr(Mul(rectHeight, F0_4))) >>
               ELSE <<>>)
              \o << TextOp("text", textColor, <<index>>,
                           Box(x, y, lineWidth,
                               Times(opts.size, LABEL_FONT_SCALE[labelOptions.size])),
                           [align |-> textAnchor, baseline |-> "alphabetic",
                            fontSize |-> Norm(Times(opts.size,
                                                    LABEL_FONT_SCALE[labelOptions.size])),
                            fontWeight |-> IF labelOptions.weight = "bold"
                                           THEN 700 ELSE 500]) >>
    IN  ForEach(Line, 0, Len(labelLayout.lines) - 1)

\* the module elements of exportSvgMarkup: matrix.rows.forEach
appendModulesSvg(matrix, opts, geometry, logoClip, styleScale, shape) ==
  LET Row(y) ==
        IF opts.style = "pills"
        THEN appendPillRowSvg([i \in 1..matrix.size |-> matrix.rows[y][i - 1]], y,
                              geometry.moduleSize, geometry.offset, matrix.size,
                              styleScale, logoClip)
        ELSE LET Cell(x) == appendModuleCellSvg(matrix.rows[y][x], x, y, matrix.size,
                                                opts.style, geometry, logoClip,
                                                styleScale, shape)
             IN  ForEach(Cell, 0, matrix.size - 1)
  IN  ForEach(Row, 0, matrix.size - 1)

\* the parts exportSvgMarkup pushes, surface the whole document
exportSvgMarkupParts(opts, matrix, geometry, logoClip, labelLayout, surface) ==
  << Op("svg", "svg", "surface", None, <<>>, surface, Num(0)) >>
  \o (IF ~opts.transparentBackground
      THEN << Op("background", "rect", "surface", opts.background, <<>>,
                 surface, Num(0)) >>
      ELSE <<>>)
  \o << Op("group", "g", "open", opts.foreground, <<>>, NoBox, Num(0)) >>
  \o appendFinderPatternsSvg(matrix.size, geometry, opts)
  \o appendModulesSvg(matrix, opts, geometry, logoClip, getStyleScale(opts.style),
                      ShapeMetrics(geometry.moduleSize, getStyleScale(opts.style)))
  \o << Op("group", "/g", "close", None, <<>>, NoBox, Num(0)) >>
  \o appendLogoSvg(opts, logoClip)
  \o appendLabelSvg(labelLayout, opts, geometry, matrix.size)
  \o << Op("svg", "/svg", "close", None, <<>>, NoBox, Num(0)) >>

\* exportSvgMarkup once the matrix, the layout and the geometry are known
exportSvgMarkupLaidOut(opts, matrix, labelLayout, geometry, logoClip) ==
  IF ~matrix.ok
  THEN [settled |-> "rejected", error |-> matrix.error,
        parts |-> <<>>, layout |-> NoLayout]
  ELSE [settled |-> "resolved", error |-> None,
        parts |-> exportSvgMarkupParts(
                    opts, matrix, geometry, logoClip, labelLayout,
                    Box(Num(0), Num(0), Num(opts.size),
                        Add(Num(opts.size), labelLayout.height))),
        layout |-> Layout(matrix, geometry, logoClip, labelLayout)]

\* exportSvgMarkup once the geometry is known
exportSvgMarkupGeometry(opts, matrix, labelLayout, geometry) ==
  exportSvgMarkupLaidOut(opts, matrix, labelLayout, geometry,
                         computeLogoClip(matrix.size, geometry.moduleSize, opts))

\* exportSvgMarkup after prepareCommonPieces
exportSvgMarkupPieces(opts, pieces) ==
  exportSvgMarkupGeometry(opts, pieces.matrix, pieces.labelLayout,
                          computeModuleSize(pieces.matrix.size, opts.size))

\* exportSvgMarkup(opts): how the promise settles and the markup it resolves to
exportSvgMarkup(opts, e) ==
  exportSvgMarkupPieces(opts, prepareCommonPieces(opts, opts.size, e))

(***************************************************************************)
(* The rendering pipeline: one request, rendered on a canvas and exported. *)
(***************************************************************************)
Logos ==
  {Absent} \cup
  {Some(l) : l \in [image : {"img"}, dataUrl : {"data:logo"},
                    sizePercent : {20}, safeZone : BOOLEAN]}

Labels ==
  {Absent} \cup
  {Some(l) : l \in [text : {[words |-> <<4, 2>>, length |-> 7]}, size : {"md"},
                    weight : {"regular"}, align : {"center"}, invert : {TRUE}]}

Requests ==
  [text : Payloads, size : {PREVIEW_SIZE}, style : Styles,
   foreground : {"#111111"}, background : {"#f5f5dc"},
   transparentBackground : BOOLEAN, label : Labels, logo : Logos, pixelRatio : {Some(1)}]

Envs ==
  [devicePixelRatio : {Some(2)}, measure : {TRUE}, glyph : {F0_5}, ctx2d : {TRUE},
   toBlob : {TRUE}]

IdleCanvas ==
  [settled |-> "idle", error |-> None, canvas |-> BlankCanvas, layout |-> NoLayout,
   ratio |-> 0]

IdleSvg == [settled |-> "idle", error |-> None, parts |-> <<>>, layout |-> NoLayout]

IdleRaster ==
  [settled |-> "idle", error |-> None, format |-> None, blob |-> Absent,
   rendered |-> Absent, canvas |-> BlankCanvas]

IdleGeo ==
  [moduleCount |-> 0, size |-> 0, moduleSize |-> Num(0), logo |-> Absent,
   geometry |-> Absent, clipped |-> FALSE, clip |-> Absent, rects |-> Absent]

\* QrPreview before its first effect: the useState defaults, a blank canvas
IdlePreview ==
  [props |-> Absent, picture |-> BlankCanvas, renderError |-> None,
   isRendering |-> FALSE, renders |-> <<>>, current |-> 0, triggers |-> 0,
   logoStatus |-> "idle", downloading |-> None, exports |-> <<>>, files |-> <<>>]

\* the request and environment of a specification that renders nothing
IdleOptions ==
  [text |-> [encodable |-> FALSE, version |-> 1, run |-> 0], size |-> PREVIEW_SIZE,
   style |-> "classic", foreground |-> "#111111", background |-> "#f5f5dc",
   transparentBackground |-> FALSE, label |-> Absent, logo |-> Absent,
   pixelRatio |-> Absent]

IdleEnv ==
  [devicePixelRatio |-> Some(2), measure |-> TRUE, glyph |-> F0_5, ctx2d |-> TRUE,
   toBlob |-> TRUE]

Init ==
  /\ options \in Requests
  /\ env \in Envs
  /\ canvas = IdleCanvas
  /\ svg = IdleSvg
  /\ raster = IdleRaster
  /\ geo = IdleGeo
  /\ preview = IdlePreview
  /\ naming = IdleNaming
  /\ logoHook = IdleLogoHook
  /\ batch = IdleBatch

RenderQrToCanvas ==
  /\ canvas.settled = "idle"
  /\ canvas' = renderQrToCanvas(canvas.canvas, options, env)
  /\ UNCHANGED <<options, env, svg, raster, geo, preview, naming, logoHook, batch>>

ExportSvgMarkup ==
  /\ svg.settled = "idle"
  /\ svg' = exportSvgMarkup(options, env)
  /\ UNCHANGED <<options, env, canvas, raster, geo, preview, naming, logoHook, batch>>

Next == RenderQrToCanvas \/ ExportSvgMarkup

Spec == Init /\ [][Next]_vars

(***************************************************************************)
(* Raster export: one download request, exported in some raster format.    *)
(***************************************************************************)
RasterFormats == {"png", "jpeg", "webp"}

\* a faulty variant: the caller's transparency kept for every format
safeOptionsUnforced(format, opts) == opts

\* the safeOptions of exportRasterImage
safeOptions(format, opts) ==
  IF format = "jpeg" THEN [opts EXCEPT !.transparentBackground = FALSE] ELSE opts

\* exportRasterImage after renderQrToCanvas settled as render: canvas.toBlob
exportRasterImageBlob(format, e, rendered, render) ==
  IF render.settled = "rejected"
  THEN [settled |-> "rejected", error |-> render.error, format |-> format,
        blob |-> Absent, rendered |-> Some(rendered), canvas |-> render.canvas]
  ELSE IF ~e.toBlob
  THEN [settled |-> "rejected", error |-> "Unable to generate image blob",
        format |-> format, blob |-> Absent, rendered |-> Some(rendered),
        canvas |-> render.canvas]
  ELSE [settled |-> "resolved", error |-> None, format |-> format,
        blob |-> Some([type |-> format,
                       quality |-> IF format = "jpeg" THEN 92 ELSE 95]),
        rendered |-> Some(rendered), canvas |-> render.canvas]

\* exportRasterImage rendering the options rendered on a fresh canvas
exportRasterImageRender(format, e, rendered) ==
  exportRasterImageBlob(format, e, rendered, renderQrToCanvas(BlankCanvas, rendered, e))

\* exportRasterImage(format, opts): how the promise settles (result), what was
\* handed to renderQrToCanvas (result.rendered), and the caller's object
\* afterwards (caller), which the spreads copy and never assign to
exportRasterImage(format, opts, e) ==
  [caller |-> opts,
   result |-> exportRasterImageRender(
                format, e, [safeOptions(format, opts) EXCEPT !.pixelRatio = Some(1)])]

\* the options handleDownload passes: baseOptions at EXPORT_SIZE, no pixelRatio
ExportRequests ==
  [text : {p \in Payloads : p.version = 1 /\ p.run \in {0, 2}},
   size : {EXPORT_SIZE}, style : {"classic", "dots"},
   foreground : {"#111111"}, background : {"#f5f5dc"},
   transparentBackground : BOOLEAN, label : Labels,
   logo : {l \in Logos : l = Absent \/ Get(l).safeZone}, pixelRatio : {Absent}]

ExportEnvs ==
  [devicePixelRatio : {Some(2)}, measure : {TRUE}, glyph : {F0_5}, ctx2d : {TRUE},
   toBlob : BOOLEAN]

InitExport ==
  /\ options \in ExportRequests
  /\ env \in ExportEnvs
  /\ canvas = IdleCanvas
  /\ svg = IdleSvg
  /\ raster = IdleRaster
  /\ geo = IdleGeo
  /\ preview = IdlePreview
  /\ naming = IdleNaming
  /\ logoHook = IdleLogoHook
  /\ batch = IdleBatch

ExportRasterImage(format) ==
  /\ raster.settled = "idle"
  /\ \E export \in {exportRasterImage(format, options, env)} :
       /\ raster' = export.result
       /\ options' = export.caller
  /\ UNCHANGED <<env, canvas, svg, geo, preview, naming, logoHook, batch>>

NextExport == \E format \in RasterFormats : ExportRasterImage(format)

SpecExport == InitExport /\ [][NextExport]_vars

(***************************************************************************)
(* Geometry: computeModuleSize and computeLogoClip over their inputs.      *)
(***************************************************************************)
\* the matrices of QR versions 1..MaxGeometryVersion
MaxGeometryVersion == 3

\* pixel sizes: the preview's, the export's, a small one, and the one that
\* gives a 25-module matrix modules of 10 pixels
PixelSizes == {PREVIEW_SIZE, EXPORT_SIZE, 128, 330}

ModuleSizes == {Num(10), Num(4), Q(360, 29)}

GeoLogos ==
  {Absent} \cup
  {Some(l) : l \in [image : {None}, dataUrl : {"data:logo"},
                    sizePercent : {0, 10, 20, 40}, safeZone : BOOLEAN]}

InitGeometry ==
  /\ options = IdleOptions
  /\ env = IdleEnv
  /\ canvas = IdleCanvas
  /\ svg = IdleSvg
  /\ raster = IdleRaster
  /\ geo \in [moduleCount : {17 + 4 * v : v \in 1..MaxGeometryVersion},
               size : PixelSizes, moduleSize : ModuleSizes, logo : GeoLogos,
               geometry : {Absent}, clipped : {FALSE}, clip : {Absent},
               rects : {Absent}]
  /\ preview = IdlePreview
  /\ naming = IdleNaming
  /\ logoHook = IdleLogoHook
  /\ batch = IdleBatch

ComputeModuleSize ==
  /\ geo.geometry = Absent
  /\ geo' = [geo EXCEPT !.geometry = Some(computeModuleSize(geo.moduleCount, geo.size))]
  /\ UNCHANGED <<options, env, canvas, svg, raster, preview, naming, logoHook, batch>>

ComputeLogoClip ==
  /\ ~geo.clipped
  /\ geo' = [geo EXCEPT !.clipped = TRUE,
                         !.clip = computeLogoClip(geo.moduleCount, geo.moduleSize,
                                                  [logo |-> geo.logo, size |-> geo.size])]
  /\ UNCHANGED <<options, env, canvas, svg, raster, preview, naming, logoHook, batch>>

NextGeometry == ComputeModuleSize \/ ComputeLogoClip

SpecGeometry == InitGeometry /\ [][NextGeometry]_vars

(***************************************************************************)
(* The logo clip on the geometry of the same render, for every logo size   *)
(* the size slider of LogoUploader allows.                                 *)
(***************************************************************************)
\* min and max of the size slider
MIN_LOGO_PERCENT == 10

MAX_LOGO_PERCENT == 40

SliderLogos ==
  {Some(l) : l \in [image : {None}, dataUrl : {"data:logo"},
                    sizePercent : MIN_LOGO_PERCENT..MAX_LOGO_PERCENT,
                    safeZone : BOOLEAN]}

InitClip ==
  /\ options = IdleOptions
  /\ env = IdleEnv
  /\ canvas = IdleCanvas
  /\ svg = IdleSvg
  /\ raster = IdleRaster
  /\ geo \in [moduleCount : {17 + 4 * v : v \in 1..MaxGeometryVersion},
               size : PixelSizes, moduleSize : {Num(0)}, logo : SliderLogos,
               geometry : {Absent}, clipped : {FALSE}, clip : {Absent},
               rects : {Absent}]
  /\ preview = IdlePreview
  /\ naming = IdleNaming
  /\ logoHook = IdleLogoHook
  /\ batch = IdleBatch

\* computeLogoClip(matrix.size, geometry.moduleSize, options) of a render
ComputeLogoClipOfGeometry ==
  /\ geo.geometry # Absent
  /\ ~geo.clipped
  /\ geo' = [geo EXCEPT !.moduleSize = Get(geo.geometry).moduleSize,
                         !.clipped = TRUE,
                         !.clip = computeLogoClip(geo.moduleCount,
                                                  Get(geo.geometry).moduleSize,
                                                  [logo |-> geo.logo, size |-> geo.size])]
  /\ UNCHANGED <<options, env, canvas, svg, raster, preview, naming, logoHook, batch>>

NextClip == ComputeModuleSize \/ ComputeLogoClipOfGeometry

SpecClip == InitClip /\ [][NextClip]_vars

(***************************************************************************)
(* Pixel snapping: the rectangle drawModules asks getAlignedRect for, for  *)
(* every cell of a matrix, in classic style.                               *)
(***************************************************************************)
\* the largest of the small pixel sizes
MaxSnapSize == 48

\* small pixel sizes, from modules of about half a pixel up to MaxSnapSize,
\* the sizes that give modules of 10 pixels, the preview's and the export's
SnapSizes == 15..MaxSnapSize \cup {290, 330, 370, PREVIEW_SIZE, EXPORT_SIZE}

InitSnap ==
  /\ options = IdleOptions
  /\ env = IdleEnv
  /\ canvas = IdleCanvas
  /\ svg = IdleSvg
  /\ raster = IdleRaster
  /\ geo \in [moduleCount : {17 + 4 * v : v \in 1..MaxGeometryVersion},
               size : SnapSizes, moduleSize : {Num(0)}, logo : {Absent},
               geometry : {Absent}, clipped : {FALSE}, clip : {Absent},
               rects : {Absent}]
  /\ preview = IdlePreview
  /\ naming = IdleNaming
  /\ logoHook = IdleLogoHook
  /\ batch = IdleBatch

\* the rect of drawModules for the cell (x, y): baseX, baseY and moduleSize
\* handed to getAlignedRect
cellRect(x, y, geometry) ==
  getAlignedRect(Add(geometry.offset, Times(x, geometry.moduleSize)),
                 Add(geometry.offset, Times(y, geometry.moduleSize)),
                 geometry.moduleSize)

\* the loop of drawModules over the rows and the cells of each row
AlignModules ==
  /\ geo.geometry # Absent
  /\ geo.rects = Absent
  /\ geo' = [geo EXCEPT !.rects =
               Some([x \in 0..(geo.moduleCount - 1) |->
                       [y \in 0..(geo.moduleCount - 1) |->
                          cellRect(x, y, Get(geo.geometry))]])]
  /\ UNCHANGED <<options, env, canvas, svg, raster, preview, naming, logoHook, batch>>

NextSnap == ComputeModuleSize \/ AlignModules

SpecSnap == InitSnap /\ [][NextSnap]_vars

(***************************************************************************)
(* The preview effect of QrPreview.  preview.renders holds one closure per *)
(* run of the effect that started a render: its options, its cancelled    *)
(* flag, how its promise settled, whether a newer render had started by    *)
(* then (superseded) and what it drew (drew); preview.current is the       *)
(* closure whose cleanup the effect returned last, 0 if it returned none.  *)
(* The promise chains of all renders have the same length, so their        *)
(* continuations run in the order the renders started.                     *)
(***************************************************************************)
\* the effect runs at most MaxTriggers times
MaxTriggers == 3

PreviewRequests ==
  {r \in Requests :
     /\ r.label = Absent /\ r.logo = Absent /\ ~r.transparentBackground
     /\ \/ (r.style = "classic" /\ r.text.encodable /\ r.text.run = 2)
        \/ (r.style = "dots" /\ r.text.encodable /\ r.text.run = 1)
        \/ (r.style = "classic" /\ ~r.text.encodable)}

\* the dependencies of the effect: contentReady and baseOptions (with qrValue)
PreviewProps ==
  {[contentReady |-> FALSE, baseOptions |-> IdleOptions]}
  \cup [contentReady : {TRUE},
        baseOptions : {[r EXCEPT !.pixelRatio = Absent] : r \in PreviewRequests}]

InitPreview ==
  /\ options = IdleOptions
  /\ env = IdleEnv
  /\ canvas = IdleCanvas
  /\ svg = IdleSvg
  /\ raster = IdleRaster
  /\ geo = IdleGeo
  /\ preview = IdlePreview
  /\ naming = IdleNaming
  /\ logoHook = IdleLogoHook
  /\ batch = IdleBatch

\* the status useLogoImage reports once its effect ran for the logo of props:
\* idle without a source, ready with the decoded image, loading until then
logoStatusOf(props) ==
  IF props.baseOptions.logo = Absent THEN "idle"
  ELSE IF Get(props.baseOptions.logo).image # None THEN "ready"
  ELSE "loading"

\* the dependencies change (or the component mounts): the cleanup of the
\* previous run, then the effect
RunPreviewEffect(props) ==
  /\ preview.triggers < MaxTriggers
  /\ preview.props # Some(props)
  /\ LET cleaned == IF preview.current = 0 THEN preview.renders
                    ELSE [preview.renders EXCEPT ![preview.current].cancelled = TRUE]
     IN  IF ~props.contentReady
         THEN preview' = [preview EXCEPT
                            !.props = Some(props),
                            !.logoStatus = logoStatusOf(props),
                            !.triggers = @ + 1,
                            !.renders = cleaned,
                            !.current = 0,
                            !.picture = [@ EXCEPT !.ops = <<>>]]
         ELSE preview' = [preview EXCEPT
                            !.props = Some(props),
                            !.logoStatus = logoStatusOf(props),
                            !.triggers = @ + 1,
                            !.isRendering = TRUE,
                            !.renders = Append(cleaned,
                                               [options |-> [props.baseOptions EXCEPT
                                                               !.size = PREVIEW_SIZE],
                                                cancelled |-> FALSE,
                                                settled |-> "pending",
                                                superseded |-> FALSE,
                                                drew |-> <<>>]),
                            !.current = Len(cleaned) + 1]
  /\ UNCHANGED <<options, env, canvas, svg, raster, geo, naming, logoHook, batch>>

\* the oldest pending render settles: renderQrToCanvas runs on the preview
\* canvas, then the then, catch and finally callbacks of the effect
SettlePreviewRender ==
  \E i \in 1..Len(preview.renders) :
    /\ preview.renders[i].settled = "pending"
    /\ \A j \in 1..(i - 1) : preview.renders[j].settled # "pending"
    /\ \E closure \in {preview.renders[i]} :
       \E render \in {renderQrToCanvas(preview.picture, closure.options, env)} :
           preview' = [preview EXCEPT
                         !.picture = render.canvas,
                         !.renderError =
                           IF closure.cancelled THEN @
                           ELSE IF render.settled = "resolved" THEN None
                           ELSE render.error,
                         !.isRendering = IF closure.cancelled THEN @ ELSE FALSE,
                         !.renders[i] =
                           [closure EXCEPT
                              !.settled = render.settled,
                              !.superseded = closure.cancelled /\ i < Len(preview.renders),
                              !.drew = IF render.settled = "resolved"
                                       THEN render.canvas.ops ELSE <<>>]]
    /\ UNCHANGED <<options, env, canvas, svg, raster, geo, naming, logoHook, batch>>

NextPreview ==
  \/ \E props \in PreviewProps : RunPreviewEffect(props)
  \/ SettlePreviewRender

SpecPreview == InitPreview /\ [][NextPreview]_vars

(***************************************************************************)
(* Downloads of QrPreview.  preview.downloading is the downloading state,  *)
(* preview.exports holds one entry per call of handleDownload that started *)
(* an export (its format, the options it passed and how the export         *)
(* settled), preview.files the downloads triggered, preview.logoStatus the *)
(* status of useLogoImage.                                                 *)
(***************************************************************************)
\* handleDownload starts at most MaxDownloads exports
MaxDownloads == 2

\* the ids of DOWNLOAD_FORMATS
DownloadFormats == {"png", "jpeg", "svg", "webp"}

contentReadyOf(p) == p.props # Absent /\ Get(p.props).contentReady

\* logo.asset is set
logoAssetOf(p) == p.props # Absent /\ Get(p.props).baseOptions.logo # Absent

\* a faulty variant: a logo that is still loading does not hold downloads back
disableDownloadsIgnoringLogo(p) == ~contentReadyOf(p) \/ p.isRendering

disableDownloads(p) ==
  ~contentReadyOf(p) \/ p.isRendering \/ (logoAssetOf(p) /\ p.logoStatus = "loading")

\* the disabled attribute of the button of format
buttonDisabled(p, format) == disableDownloads(p) \/ p.downloading = format

\* handleDownload(format) up to its first await
handleDownload(p, format) ==
  IF ~contentReadyOf(p) THEN p
  ELSE [p EXCEPT
          !.downloading = format,
          !.exports = Append(@, [format |-> format,
                                 options |-> [Get(p.props).baseOptions EXCEPT
                                                !.size = EXPORT_SIZE],
                                 settled |-> "pending", error |-> None])]

\* a faulty variant: downloading reset after a download only, not in a finally
handleDownloadSettledNoFinally(p, i, result) ==
  [p EXCEPT
     !.exports[i].settled = result.settled,
     !.exports[i].error = result.error,
     !.files = IF result.settled = "resolved"
               THEN Append(@, [format |-> p.exports[i].format,
                               style |-> p.exports[i].options.style])
               ELSE @,
     !.renderError = IF result.settled = "rejected" THEN result.error ELSE @,
     !.downloading = IF result.settled = "resolved" THEN None ELSE @]

\* handleDownload after the await of export i, which settled as result: the
\* download, or the catch block, then the finally block
handleDownloadSettled(p, i, result) ==
  [p EXCEPT
     !.exports[i].settled = result.settled,
     !.exports[i].error = result.error,
     !.files = IF result.settled = "resolved"
               THEN Append(@, [format |-> p.exports[i].format,
                               style |-> p.exports[i].options.style])
               ELSE @,
     !.renderError = IF result.settled = "rejected" THEN result.error ELSE @,
     !.downloading = None]

\* what the export of a download settles as
exportSettles(format, opts, e) ==
  IF format = "svg" THEN exportSvgMarkup(opts, e)
  ELSE exportRasterImage(format, opts, e).result

\* the props of QrPreview: content not ready; content ready without a logo
\* and with a logo that is not decoded (yet)
DownloadProps ==
  {[contentReady |-> FALSE, baseOptions |-> IdleOptions]}
  \cup [contentReady : {TRUE},
        baseOptions :
          [text : {[encodable |-> TRUE, version |-> 1, run |-> 0]},
           size : {PREVIEW_SIZE}, style : {"classic"},
           foreground : {"#111111"}, background : {"#f5f5dc"},
           transparentBackground : {FALSE}, label : {Absent},
           logo : {Absent} \cup
                  {Some(l) : l \in [image : {None}, dataUrl : {"data:logo"},
                                    sizePercent : {20}, safeZone : {FALSE}]},
           pixelRatio : {Absent}]]

InitDownload ==
  /\ options = IdleOptions
  /\ env \in ExportEnvs
  /\ canvas = IdleCanvas
  /\ svg = IdleSvg
  /\ raster = IdleRaster
  /\ geo = IdleGeo
  /\ preview = IdlePreview
  /\ naming = IdleNaming
  /\ logoHook = IdleLogoHook
  /\ batch = IdleBatch

\* a click on the enabled download button of format
ClickDownload(format) ==
  /\ Len(preview.exports) < MaxDownloads
  /\ ~buttonDisabled(preview, format)
  /\ preview' = handleDownload(preview, format)
  /\ UNCHANGED <<options, env, canvas, svg, raster, geo, naming, logoHook, batch>>

\* the export of a download settles
SettleDownload ==
  \E i \in 1..Len(preview.exports) :
    /\ preview.exports[i].settled = "pending"
    /\ \E result \in {exportSettles(preview.exports[i].format,
                                    preview.exports[i].options, env)} :
         preview' = handleDownloadSettled(preview, i, result)
    /\ UNCHANGED <<options, env, canvas, svg, raster, geo, naming, logoHook, batch>>

\* img.onerror of useLogoImage: the logo could not be decoded
LogoFails ==
  /\ preview.logoStatus = "loading"
  /\ preview' = [preview EXCEPT !.logoStatus = "error"]
  /\ UNCHANGED <<options, env, canvas, svg, raster, geo, naming, logoHook, batch>>

NextDownload ==
  \/ \E props \in DownloadProps : RunPreviewEffect(props)
  \/ SettlePreviewRender
  \/ \E format \in DownloadFormats : ClickDownload(format)
  \/ SettleDownload
  \/ LogoFails

SpecDownload == InitDownload /\ [][NextDownload]_vars

(***************************************************************************)
(* Captions: one request per caption, laid out and drawn by both adapters. *)
(***************************************************************************)
\* captions of up to MaxWords words
MaxWords == 5

\* the characters of a word of a caption
WordChars == 12

\* captions with no word: the empty string, and three blanks
BlankTexts == {[words |-> <<>>, length |-> n] : n \in {0, 3}}

\* captions of k words, single blanks between them
WordTexts ==
  {[words |-> [i \in 1..k |-> WordChars], length |-> k * WordChars + k - 1] :
     k \in 1..MaxWords}

LabelInputs ==
  {Absent}
  \cup {Some(l) : l \in [text : BlankTexts, size : {"sm", "md", "lg"},
                         weight : {"regular", "bold"},
                         align : {"left", "center", "right"}, invert : BOOLEAN]}
  \cup {Some(l) : l \in [text : WordTexts, size : {"sm", "md", "lg"},
                         weight : {"bold"}, align : {"left", "right"},
                         invert : BOOLEAN]}

LabelRequests ==
  [text : {[encodable |-> TRUE, version |-> 1, run |-> 0]},
   size : {PREVIEW_SIZE, EXPORT_SIZE}, style : {"classic"},
   foreground : {"#111111"}, background : {"#f5f5dc"},
   transparentBackground : {FALSE}, label : LabelInputs, logo : {Absent},
   pixelRatio : {Some(1)}]

\* with and without a 2d context to measure text with
LabelEnvs ==
  [devicePixelRatio : {Some(2)}, measure : BOOLEAN, glyph : {F0_5}, ctx2d : {TRUE},
   toBlob : {TRUE}]

InitLabel ==
  /\ options \in LabelRequests
  /\ env \in LabelEnvs
  /\ canvas = IdleCanvas
  /\ svg = IdleSvg
  /\ raster = IdleRaster
  /\ geo = IdleGeo
  /\ preview = IdlePreview
  /\ naming = IdleNaming
  /\ logoHook = IdleLogoHook
  /\ batch = IdleBatch

SpecLabel == InitLabel /\ [][Next]_vars

(***************************************************************************)
(* Wrapping: captions of words of several lengths, with and without a      *)
(* context to measure them with.                                           *)
(***************************************************************************)
\* captions of up to MaxWrapWords words
MaxWrapWords == 4

\* the characters of a short, a middle and a long word
WrapWordChars == {4, 12, 30}

\* the caption "Scan me"
ScanMe == [words |-> <<4, 2>>, length |-> 7]

\* the caption of the words w, single blanks between them
TextOf(w) == [words |-> w, length |-> SumSeq(w) + Len(w) - 1]

WrapTexts ==
  {ScanMe} \cup {TextOf(w) : w \in UNION {[1..k -> WrapWordChars] : k \in 1..MaxWrapWords}}

WrapRequests ==
  [text : {[encodable |-> TRUE, version |-> 1, run |-> 0]},
   size : {PREVIEW_SIZE, EXPORT_SIZE}, style : {"classic"},
   foreground : {"#111111"}, background : {"#f5f5dc"},
   transparentBackground : {FALSE},
   label : {Some(l) : l \in [text : WrapTexts, size : {"sm", "md", "lg"},
                             weight : {"regular"}, align : {"center"},
                             invert : {FALSE}]},
   logo : {Absent}, pixelRatio : {Some(1)}]

InitWrap ==
  /\ options \in WrapRequests
  /\ env \in LabelEnvs
  /\ canvas = IdleCanvas
  /\ svg = IdleSvg
  /\ raster = IdleRaster
  /\ geo = IdleGeo
  /\ preview = IdlePreview
  /\ naming = IdleNaming
  /\ logoHook = IdleLogoHook
  /\ batch = IdleBatch

SpecWrap == InitWrap /\ [][Next]_vars

(***************************************************************************)
(* Logos: one request per logo, with and without a decoded image and a     *)
(* data URL, rendered by both adapters.                                    *)
(***************************************************************************)
LogoInputs ==
  {Absent} \cup
  {Some(l) : l \in [image : {None, "img"}, dataUrl : {None, "data:logo"},
                    sizePercent : {0, 20}, safeZone : BOOLEAN]}

LogoRequests ==
  [text : {p \in Payloads : p.encodable /\ p.version = 1 /\ p.run \in {2, MaxRun + 1}},
   size : {PREVIEW_SIZE}, style : {"classic", "dots", "pills"},
   foreground : {"#111111"}, background : {"#f5f5dc"},
   transparentBackground : {FALSE}, label : {Absent}, logo : LogoInputs,
   pixelRatio : {Some(1)}]

InitLogo ==
  /\ options \in LogoRequests
  /\ env \in Envs
  /\ canvas = IdleCanvas
  /\ svg = IdleSvg
  /\ raster = IdleRaster
  /\ geo = IdleGeo
  /\ preview = IdlePreview
  /\ naming = IdleNaming
  /\ logoHook = IdleLogoHook
  /\ batch = IdleBatch

SpecLogo == InitLogo /\ [][Next]_vars

(***************************************************************************)
(* Pixel ratios: one request, rendered for the screen and exported as a    *)
(* raster image, on devices of several pixel ratios.                       *)
(***************************************************************************)
\* window.devicePixelRatio and options.pixelRatio range over 1..MaxPixelRatio
MaxPixelRatio == 3

\* no caption, and one-word captions of the middle and the large font
RatioLabels ==
  {l \in LabelInputs :
     \/ l = Absent
     \/ /\ Len(Get(l).text.words) = 1 /\ Get(l).size \in {"md", "lg"}
        /\ Get(l).align = "left" /\ ~Get(l).invert}

RatioRequests ==
  [text : {[encodable |-> TRUE, version |-> 1, run |-> 2]},
   size : {PREVIEW_SIZE, EXPORT_SIZE}, style : {"classic"},
   foreground : {"#111111"}, background : {"#f5f5dc"},
   transparentBackground : {FALSE}, label : RatioLabels, logo : {Absent},
   pixelRatio : {Absent} \cup {Some(r) : r \in 2..MaxPixelRatio}]

RatioEnvs ==
  [devicePixelRatio : {Absent} \cup {Some(r) : r \in 1..MaxPixelRatio},
   measure : {TRUE}, glyph : {F0_5}, ctx2d : {TRUE}, toBlob : {TRUE}]

InitRatio ==
  /\ options \in RatioRequests
  /\ env \in RatioEnvs
  /\ canvas = IdleCanvas
  /\ svg = IdleSvg
  /\ raster = IdleRaster
  /\ geo = IdleGeo
  /\ preview = IdlePreview
  /\ naming = IdleNaming
  /\ logoHook = IdleLogoHook
  /\ batch = IdleBatch

NextRatio ==
  \/ RenderQrToCanvas
  \/ \E format \in RasterFormats : ExportRasterImage(format)

SpecRatio == InitRatio /\ [][NextRatio]_vars

(***************************************************************************)
(* Download names: createSlug and buildFilename of QrPreview.  A string is *)
(* the sequence of its characters; the style id and the format id are     *)
(* interpolated whole and stand in a name as one piece each.              *)
(***************************************************************************)
LowerLetters ==
  <<"a", "b", "c", "d", "e", "f", "g", "h", "i", "j", "k", "l", "m",
    "n", "o", "p", "q", "r", "s", "t", "u", "v", "w", "x", "y", "z">>

UpperLetters ==
  <<"A", "B", "C", "D", "E", "F", "G", "H", "I", "J", "K", "L", "M",
    "N", "O", "P", "Q", "R", "S", "T", "U", "V", "W", "X", "Y", "Z">>

DigitChars == <<"0", "1", "2", "3", "4", "5", "6", "7", "8", "9">>

\* the default of the fallback parameter of createSlug
DefaultFallback == <<"q", "r">>

\* the most characters of a slug: slice(0, 40)
SLUG_LENGTH == 40

\* c.toLowerCase() of one character
charToLowerCase(c) ==
  IF \E k \in DOMAIN UpperLetters : UpperLetters[k] = c
  THEN LowerLetters[CHOOSE k \in DOMAIN UpperLetters : UpperLetters[k] = c]
  ELSE c

\* value.toLowerCase()
toLowerCase(value) == [i \in 1..Len(value) |-> charToLowerCase(value[i])]

\* c matches [a-z0-9]
MatchesSlugClass(c) ==
  \/ \E k \in DOMAIN LowerLetters : LowerLetters[k] = c
  \/ \E k \in DOMAIN DigitChars : DigitChars[k] = c

\* the index after the run of characters outside [a-z0-9] that starts at i
RECURSIVE RunEnd(_, _)
RunEnd(s, i) ==
  IF i > Len(s) \/ MatchesSlugClass(s[i]) THEN i ELSE RunEnd(s, i + 1)

\* s.replace(/[^a-z0-9]+/g, "-") from index i on: every maximal run of
\* characters outside [a-z0-9] becomes one hyphen
RECURSIVE replaceRuns(_, _)
replaceRuns(s, i) ==
  IF i > Len(s) THEN <<>>
  ELSE IF MatchesSlugClass(s[i]) THEN <<s[i]>> \o replaceRuns(s, i + 1)
  ELSE <<"-">> \o replaceRuns(s, RunEnd(s, i))

\* the match of ^- in s.replace(/^-|-$/g, "")
stripLeadingHyphen(s) == IF s # <<>> /\ s[1] = "-" THEN Tail(s) ELSE s

\* the match of -$ in what the match of ^- left
stripTrailingHyphen(s) ==
  IF s # <<>> /\ s[Len(s)] = "-" THEN SubSeq(s, 1, Len(s) - 1) ELSE s

\* s.slice(0, k)
slice0(s, k) == IF Len(s) <= k THEN s ELSE SubSeq(s, 1, k)

\* the slug before the fallback is applied
slugOf(value) ==
  slice0(stripTrailingHyphen(stripLeadingHyphen(replaceRuns(toLowerCase(value), 1))),
         SLUG_LENGTH)

\* createSlug without `|| fallback`
createSlugNoFallback(value, fallback) == slugOf(value)

createSlug(value, fallback) ==
  LET slug == slugOf(value) IN IF slug = <<>> THEN fallback ELSE slug

\* the summarySlug memo: createSlug(contentSummary || "qr")
summarySlug(contentSummary) ==
  createSlug(IF contentSummary = <<>> THEN DefaultFallback ELSE contentSummary,
             DefaultFallback)

\* String(n) of a natural number
RECURSIVE numberToString(_)
numberToString(n) ==
  IF n < 10 THEN <<DigitChars[n + 1]>>
  ELSE numberToString(n \div 10) \o <<DigitChars[(n % 10) + 1]>>

\* s.padStart(targetLength, fill) with a one-character fill
RECURSIVE padStart(_, _, _)
padStart(s, targetLength, fill) ==
  IF Len(s) >= targetLength THEN s ELSE padStart(<<fill>> \o s, targetLength, fill)

\* the timestamp of buildFilename; now holds the local fields of new Date()
\* as its getters return them (getMonth counts from 0)
timestampOf(now) ==
  numberToString(now.fullYear)
    \o padStart(numberToString(now.month + 1), 2, "0")
    \o padStart(numberToString(now.date), 2, "0")
    \o <<"-">>
    \o padStart(numberToString(now.hours), 2, "0")
    \o padStart(numberToString(now.minutes), 2, "0")
    \o padStart(numberToString(now.seconds), 2, "0")

buildFilename(formatId, style, slug, now) ==
  <<"q", "r", "-">> \o slug \o <<"-", style, "-">> \o timestampOf(now)
    \o <<".", formatId>>

\* inputs of up to MaxValueLen characters over SlugAlphabet, and inputs
\* around SLUG_LENGTH characters
MaxValueLen == 4

MaxTailLen == 2

SlugAlphabet == {"a", "Z", "7", "-", " ", "/"}

StringsUpTo(k) == UNION {[1..j -> SlugAlphabet] : j \in 0..k}

Letters(k) == [i \in 1..k |-> "a"]

SlugInputs ==
  StringsUpTo(MaxValueLen)
    \cup {Letters(k) \o t : k \in (SLUG_LENGTH - 2)..(SLUG_LENGTH + 1),
                            t \in StringsUpTo(MaxTailLen)}

\* local times of a download
DownloadTimes ==
  {[fullYear |-> 2024, month |-> 0, date |-> 5, hours |-> 0, minutes |-> 7,
    seconds |-> 9],
   [fullYear |-> 2025, month |-> 9, date |-> 10, hours |-> 10, minutes |-> 30,
    seconds |-> 0],
   [fullYear |-> 2026, month |-> 11, date |-> 31, hours |-> 23, minutes |-> 59,
    seconds |-> 59]}

NamingStyles == {"classic", "pills"}

InitNaming ==
  /\ options = IdleOptions
  /\ env = IdleEnv
  /\ canvas = IdleCanvas
  /\ svg = IdleSvg
  /\ raster = IdleRaster
  /\ geo = IdleGeo
  /\ preview = IdlePreview
  /\ naming \in {[IdleNaming EXCEPT !.value = value] : value \in SlugInputs}
  /\ logoHook = IdleLogoHook
  /\ batch = IdleBatch

\* createSlug(value)
CreateSlug ==
  /\ naming.slug = Absent
  /\ naming' = [naming EXCEPT !.slug = Some(createSlug(naming.value, DefaultFallback))]
  /\ UNCHANGED <<options, env, canvas, svg, raster, geo, preview, logoHook, batch>>

\* triggerBlobDownload(blob, mime, formatId, style, summarySlug) at local time now
TriggerBlobDownload(formatId, style, now) ==
  /\ naming.slug # Absent
  /\ naming.download = Absent
  /\ naming' = [naming EXCEPT !.download =
                  Some([formatId |-> formatId, style |-> style, now |-> now,
                        filename |-> buildFilename(formatId, style,
                                                   summarySlug(naming.value), now)])]
  /\ UNCHANGED <<options, env, canvas, svg, raster, geo, preview, logoHook, batch>>

NextNaming ==
  \/ CreateSlug
  \/ \E formatId \in DownloadFormats, style \in NamingStyles, now \in DownloadTimes :
       TriggerBlobDownload(formatId, style, now)

SpecNaming == InitNaming /\ [][NextNaming]_vars

(***************************************************************************)
(* useLogoImage: the hook that decodes the uploaded logo.  loads are the   *)
(* Image objects made so far, each with the source it was given, the       *)
(* cancelled flag of its effect run and whether it is loading, loaded or   *)
(* failed; the image of load i is Some([load |-> i, source |-> its source]).*)
(***************************************************************************)
\* the Image objects made in one run of the model
MaxLoads == 3

\* data URLs of uploaded logos
LogoSources == {"data:a", "data:b"}

\* the cleanup of the last effect run: cancelled = true
useLogoImageCleanup(h) ==
  IF h.loads = <<>> \/ h.source = None THEN h.loads
  ELSE [h.loads EXCEPT ![Len(h.loads)].cancelled = TRUE]

\* the effect of useLogoImage run for a new source, after the cleanup of the
\* run before
useLogoImageEffect(h, source) ==
  IF source = None
  THEN [h EXCEPT !.source = source, !.image = Absent, !.status = "idle",
                 !.loads = useLogoImageCleanup(h)]
  ELSE [h EXCEPT !.source = source, !.status = "loading",
                 !.loads = Append(useLogoImageCleanup(h),
                                  [source |-> source, cancelled |-> FALSE,
                                   state |-> "loading"])]

\* img.onload of load i
imgOnload(h, i) ==
  IF h.loads[i].cancelled THEN [h EXCEPT !.loads[i].state = "loaded"]
  ELSE [h EXCEPT !.loads[i].state = "loaded",
                 !.image = Some([load |-> i, source |-> h.loads[i].source]),
                 !.status = "ready"]

\* img.onerror of load i
imgOnerror(h, i) ==
  IF h.loads[i].cancelled THEN [h EXCEPT !.loads[i].state = "failed"]
  ELSE [h EXCEPT !.loads[i].state = "failed", !.image = Absent,
                 !.status = "error"]

InitLogoImage ==
  /\ options = IdleOptions
  /\ env = IdleEnv
  /\ canvas = IdleCanvas
  /\ svg = IdleSvg
  /\ raster = IdleRaster
  /\ geo = IdleGeo
  /\ preview = IdlePreview
  /\ naming = IdleNaming
  /\ logoHook = IdleLogoHook
  /\ batch = IdleBatch

\* the source changes (a logo is uploaded, replaced or removed) and the
\* effect runs
SourceChanges(source) ==
  /\ source # logoHook.source
  /\ source # None => Len(logoHook.loads) < MaxLoads
  /\ logoHook' = useLogoImageEffect(logoHook, source)
  /\ UNCHANGED <<options, env, canvas, svg, raster, geo, preview, naming, batch>>

\* the browser decoded the image of load i
ImageLoads(i) ==
  /\ i \in 1..Len(logoHook.loads)
  /\ logoHook.loads[i].state = "loading"
  /\ logoHook' = imgOnload(logoHook, i)
  /\ UNCHANGED <<options, env, canvas, svg, raster, geo, preview, naming, batch>>

\* the browser could not decode the image of load i
ImageFails(i) ==
  /\ i \in 1..Len(logoHook.loads)
  /\ logoHook.loads[i].state = "loading"
  /\ logoHook' = imgOnerror(logoHook, i)
  /\ UNCHANGED <<options, env, canvas, svg, raster, geo, preview, naming, batch>>

NextLogoImage ==
  \/ \E source \in LogoSources \cup {None} : SourceChanges(source)
  \/ \E i \in 1..MaxLoads : ImageLoads(i)
  \/ \E i \in 1..MaxLoads : ImageFails(i)

SpecLogoImage == InitLogoImage /\ [][NextLogoImage]_vars

(***************************************************************************)
(* Batch export: handleBatchGenerate over the lines of the batch field.    *)
(* A line is held as its pieces: the CSV label before the first comma (or  *)
(* the empty string), and what the URL class makes of the rest: the        *)
(* normalized URL (Absent when it does not parse), its hostname and the    *)
(* payload the renderer gets.  zip is the JSZip object, the sequence of    *)
(* its entries; archive is the ZIP handed to triggerZipDownload by the     *)
(* run in progress or last finished.                                       *)
(***************************************************************************)
\* the lines of one batch field
MaxJobs == 3

\* the seconds the clock advances during one run of the model
MaxTicks == 1

\* the design of the batch runs: the caption field left empty
DesignLabel ==
  [text |-> [words |-> <<>>, length |-> 0], size |-> "md", weight |-> "regular",
   align |-> "center", invert |-> FALSE]

DesignStyle == "classic"

\* text.split(/\s+/) of a trimmed caption: the lengths of its words
RECURSIVE wordLengths(_, _)
wordLengths(s, run) ==
  IF s = <<>> THEN IF run > 0 THEN <<run>> ELSE <<>>
  ELSE IF Head(s) = " "
  THEN (IF run > 0 THEN <<run>> ELSE <<>>) \o wordLengths(Tail(s), 0)
  ELSE wordLengths(Tail(s), run + 1)

\* the caption of a job label, as the label layout reads it
captionOf(label) == [words |-> wordLengths(label, 0), length |-> Len(label)]

\* the local time of a download, batch.seconds after the first of DownloadTimes
nowOf(seconds) ==
  [fullYear |-> 2024, month |-> 0, date |-> 5, hours |-> 0, minutes |-> 7,
   seconds |-> 9 + seconds]

\* parseBatchInput over the trimmed, non-empty lines of the field
RECURSIVE parseBatchInput(_)
parseBatchInput(lines) ==
  IF lines = <<>> THEN <<>>
  ELSE LET line == Head(lines)
           rest == parseBatchInput(Tail(lines))
       IN  IF line.normalized = Absent THEN rest
           ELSE LET slugSource ==
                      IF line.label # <<>> THEN line.label
                      ELSE IF line.host # <<>> THEN line.host
                      ELSE Get(line.normalized)
                IN  <<[url |-> line.url,
                       label |-> IF line.label # <<>> THEN Some(line.label)
                                 ELSE Absent,
                       slug |-> createSlug(slugSource, DefaultFallback)]>> \o rest

\* a batchMessage without a count in it
batchNote(text) == Some([text |-> text, N |-> 0])

\* zip.file(name, data) of JSZip: the entry of that name is set, a new name
\* is added after the others
zipFile(zip, name, data) ==
  IF \E k \in 1..Len(zip) : zip[k].name = name
  THEN [k \in 1..Len(zip) |->
          IF zip[k].name = name THEN [name |-> name, data |-> data] ELSE zip[k]]
  ELSE Append(zip, [name |-> name, data |-> data])

\* the baseOptions memo of the batch runs
batchBaseOptions ==
  [IdleOptions EXCEPT
     !.style = DesignStyle,
     !.label = IF DesignLabel.text.words # <<>> THEN Some(DesignLabel) ELSE Absent]

\* the options handleBatchGenerate passes to exportRasterImage for job
batchJobOptions(job) ==
  LET jobLabel == IF job.label # Absent
                  THEN Some([DesignLabel EXCEPT !.text = captionOf(Get(job.label))])
                  ELSE batchBaseOptions.label
      labelPayload == IF jobLabel # Absent /\ Get(jobLabel).text.words # <<>>
                      THEN jobLabel ELSE Absent
  IN  [batchBaseOptions EXCEPT !.text = job.url, !.label = labelPayload,
                               !.size = EXPORT_SIZE]

\* the disabled attribute of the "Generate PNG ZIP" button, content ready
batchDisabled(b) == b.isBatching \/ b.lines = <<>> \/ b.contentType # "url"

\* handleBatchGenerate up to its first await
handleBatchGenerate(b) ==
  IF b.contentType # "url"
  THEN [b EXCEPT !.batchMessage =
                   batchNote("Batch generation currently supports URL content only.")]
  ELSE LET jobs == parseBatchInput(b.lines)
       IN  IF jobs = <<>>
           THEN [b EXCEPT !.batchMessage = batchNote("Add at least one URL or CSV row.")]
           ELSE [b EXCEPT !.jobs = jobs, !.next = 1, !.isBatching = TRUE,
                          !.batchMessage = batchNote("Preparing ZIP..."),
                          !.zip = <<>>, !.archive = Absent]

\* handleBatchGenerate after the await of the export of job b.next, which
\* settled as result: zip.file and the next iteration, or the catch block
\* and the finally block
handleBatchExported(b, result) ==
  IF result.settled = "resolved"
  THEN [b EXCEPT
          !.zip = zipFile(@, buildFilename("png", DesignStyle, b.jobs[b.next].slug,
                                           nowOf(b.seconds)),
                          [job |-> b.next, blob |-> Get(result.blob),
                           rendered |-> Get(result.rendered)]),
          !.next = @ + 1]
  ELSE [b EXCEPT !.batchMessage = batchNote(result.error), !.isBatching = FALSE,
                 !.next = 0]

\* handleBatchGenerate after the await of zip.generateAsync: the download,
\* the message and the finally block
handleBatchZipped(b) ==
  [b EXCEPT !.archive = Some(b.zip),
            !.batchMessage = Some([text |-> "Generated N PNGs.", N |-> Len(b.jobs)]),
            !.isBatching = FALSE, !.next = 0]

\* lines of a batch field: two URLs of one host, two CSV rows whose labels
\* differ in case only, a row with a label of its own, a line that is no URL
\* and a URL too long to encode
BatchLines ==
  {[label |-> <<>>, host |-> <<"a", ".", "c", "o">>,
    normalized |-> Some(<<"a", ".", "c", "o", "/", "1">>),
    url |-> [encodable |-> TRUE, version |-> 1, run |-> 0]],
   [label |-> <<>>, host |-> <<"a", ".", "c", "o">>,
    normalized |-> Some(<<"a", ".", "c", "o", "/", "2">>),
    url |-> [encodable |-> TRUE, version |-> 1, run |-> 2]],
   [label |-> <<"M", "e">>, host |-> <<"a", ".", "c", "o">>,
    normalized |-> Some(<<"a", ".", "c", "o", "/", "1">>),
    url |-> [encodable |-> TRUE, version |-> 1, run |-> 0]],
   [label |-> <<"m", "e">>, host |-> <<"b", ".", "c", "o">>,
    normalized |-> Some(<<"b", ".", "c", "o", "/">>),
    url |-> [encodable |-> TRUE, version |-> 1, run |-> 2]],
   [label |-> <<"Z", " ", "7">>, host |-> <<"b", ".", "c", "o">>,
    normalized |-> Some(<<"b", ".", "c", "o", "/">>),
    url |-> [encodable |-> TRUE, version |-> 1, run |-> 0]],
   [label |-> <<>>, host |-> <<>>, normalized |-> Absent,
    url |-> [encodable |-> FALSE, version |-> 1, run |-> 0]],
   [label |-> <<>>, host |-> <<"c", ".", "c", "o">>,
    normalized |-> Some(<<"c", ".", "c", "o", "/", "l", "o", "n", "g">>),
    url |-> [encodable |-> FALSE, version |-> 1, run |-> 0]]}

BatchInputs == UNION {[1..k -> BatchLines] : k \in 0..MaxJobs}

InitBatch ==
  /\ options = IdleOptions
  /\ env \in ExportEnvs
  /\ canvas = IdleCanvas
  /\ svg = IdleSvg
  /\ raster = IdleRaster
  /\ geo = IdleGeo
  /\ preview = IdlePreview
  /\ naming = IdleNaming
  /\ logoHook = IdleLogoHook
  /\ batch \in {[IdleBatch EXCEPT !.lines = lines, !.contentType = contentType] :
                  lines \in BatchInputs, contentType \in {"url", "text"}}

\* a click on the enabled "Generate PNG ZIP" button
ClickBatchGenerate ==
  /\ ~batchDisabled(batch)
  /\ batch' = handleBatchGenerate(batch)
  /\ UNCHANGED <<options, env, canvas, svg, raster, geo, preview, naming, logoHook>>

\* the export of the job in turn settles
SettleBatchExport ==
  /\ batch.isBatching
  /\ batch.next \in 1..Len(batch.jobs)
  /\ \E result \in {exportSettles("png", batchJobOptions(batch.jobs[batch.next]), env)} :
       batch' = handleBatchExported(batch, result)
  /\ UNCHANGED <<options, env, canvas, svg, raster, geo, preview, naming, logoHook>>

\* zip.generateAsync settles after the last job
SettleBatchZip ==
  /\ batch.isBatching
  /\ batch.next = Len(batch.jobs) + 1
  /\ batch' = handleBatchZipped(batch)
  /\ UNCHANGED <<options, env, canvas, svg, raster, geo, preview, naming, logoHook>>

\* the clock reaches the next second
ClockTicks ==
  /\ batch.seconds < MaxTicks
  /\ batch' = [batch EXCEPT !.seconds = @ + 1]
  /\ UNCHANGED <<options, env, canvas, svg, raster, geo, preview, naming, logoHook>>

NextBatch == ClickBatchGenerate \/ SettleBatchExport \/ SettleBatchZip \/ ClockTicks

SpecBatch == InitBatch /\ [][NextBatch]_vars

(***************************************************************************)
(* What a finished render shows, read off the drawing operations.          *)
(***************************************************************************)
Range(f) == {f[i] : i \in DOMAIN f}

\* the drawing operations of the two adapters, once they resolved
CanvasOps == IF canvas.settled = "resolved" THEN canvas.canvas.ops ELSE <<>>
SvgParts == IF svg.settled = "resolved" THEN svg.parts ELSE <<>>
Outputs == {CanvasOps, SvgParts}

\* the module shapes of a drawing, in order, each by the cells <<x, y, n>> it spans
ShapeAts(ops) ==
  LET shapes == SelectSeq(ops, LAMBDA o : o.layer = "module")
  IN  [i \in 1..Len(shapes) |-> shapes[i].at]

\* the cells that received a module shape
ShapedCells(ops) ==
  UNION {{<<x, at[2]>> : x \in at[1]..(at[1] + at[3] - 1)} : at \in Range(ShapeAts(ops))}

\* cell (x, y) of a size x size matrix lies in the top-left, top-right or
\* bottom-left 7x7 corner
InFinderCorner(x, y, size) ==
  \/ (x < 7 /\ y < 7)
  \/ (x >= size - 7 /\ y < 7)
  \/ (x < 7 /\ y >= size - 7)

\* the pixel rectangle of cell (x, y) overlaps the square of side `side` at (left, top)
CellOverlapsSquare(x, y, geometry, left, top, side) ==
  LET m == geometry.moduleSize
      cellLeft == Add(geometry.offset, Times(x, m))
      cellTop == Add(geometry.offset, Times(y, m))
  IN  /\ Lt(cellLeft, Add(left, side)) /\ Lt(left, Add(cellLeft, m))
      /\ Lt(cellTop, Add(top, side)) /\ Lt(top, Add(cellTop, m))

\* the request's matrix, by the sets of its cells <<x, y>>: the dark ones, the
\* ones in a finder corner, in the bottom-right corner, overlapping the padded
\* square of the logo clip, and overlapping its inner contentSize square
ReqFacts ==
  LET matrix == buildMatrix(options.text, FALSE)
      geometry == computeModuleSize(matrix.size, options.size)
      clip == computeLogoClip(matrix.size, geometry.moduleSize, options)
      cells == (0..(matrix.size - 1)) \X (0..(matrix.size - 1))
  IN  [size |-> matrix.size,
       cells |-> cells,
       clip |-> clip,
       dark |-> {c \in cells : matrix.rows[c[2]][c[1]]},
       corner |-> {c \in cells : InFinderCorner(c[1], c[2], matrix.size)},
       bottomRight |-> {c \in cells : c[1] >= matrix.size - 7 /\ c[2] >= matrix.size - 7},
       geometry |-> geometry,
       clipped |-> IF clip = Absent THEN {}
                   ELSE {c \in cells :
                           CellOverlapsSquare(c[1], c[2], geometry, Get(clip).x,
                                              Get(clip).y, Get(clip).size)},
       underContent |-> IF clip = Absent THEN {}
                        ELSE {c \in cells :
                                CellOverlapsSquare(c[1], c[2], geometry,
                                                   Add(Get(clip).x, Get(clip).padding),
                                                   Add(Get(clip).y, Get(clip).padding),
                                                   Get(clip).contentSize)}]

\* C1: once both adapters resolved a request, the canvas adapter at pixel
\* ratio 1 and the vector adapter derived the same moduleSize and offset, the
\* same logo clip and the same label lines, and the same cells (for pills: the
\* same runs) received a module shape.
C1_SameLayout ==
  (canvas.settled = "resolved" /\ canvas.ratio = 1 /\ svg.settled = "resolved") =>
    /\ Get(canvas.layout).geometry = Get(svg.layout).geometry
    /\ Get(canvas.layout).logoClip = Get(svg.layout).logoClip
    /\ Get(canvas.layout).labelLayout.lines = Get(svg.layout).labelLayout.lines
    /\ Range(ShapeAts(CanvasOps)) = Range(ShapeAts(SvgParts))
    /\ ShapedCells(CanvasOps) = ShapedCells(SvgParts)

\* both adapters resolved a request with a logo and a caption, drew module
\* shapes, and skipped a dark cell under the logo
C1_Witness ==
  /\ canvas.settled = "resolved" /\ canvas.ratio = 1 /\ svg.settled = "resolved"
  /\ options.logo # Absent /\ options.label # Absent
  /\ Len(Get(svg.layout).labelLayout.lines) > 0
  /\ ShapedCells(SvgParts) # {}
  /\ ReqFacts.dark \cap ReqFacts.clipped # {}

\* C2: in both adapters and every style no module shape (a cell's shape or
\* any part of a pill run) covers a cell of the top-left, top-right or
\* bottom-left 7x7 corner, which are exactly the cells isFinderModule accepts;
\* the bottom-right corner is no finder zone: its dark cells get shapes.
C2_NoShapeOnFinder ==
  LET f == ReqFacts
  IN  /\ \A c \in f.cells : isFinderModule(c[1], c[2], f.size) <=> c \in f.corner
      /\ \A ops \in Outputs :
           LET shaped == ShapedCells(ops)
           IN  /\ shaped \cap f.corner = {}
               /\ ops # <<>> => ((f.bottomRight \cap f.dark) \ f.clipped) \subseteq shaped

\* both adapters drew a symbol whose finder corners hold dark cells, left them
\* without module shapes, and drew the dark cells of the bottom-right corner
C2_Witness ==
  /\ canvas.settled = "resolved" /\ svg.settled = "resolved"
  /\ ReqFacts.corner \cap ReqFacts.dark # {}
  /\ ShapedCells(CanvasOps) \cap ReqFacts.bottomRight # {}
  /\ ShapedCells(SvgParts) \cap ReqFacts.bottomRight # {}

\* C3: when computeLogoClip returns a clip, no module shape of either adapter,
\* in any style (pill runs included), covers a cell whose pixel rectangle
\* overlaps the clip's padded square [x, x + size) x [y, y + size).
C3_NoShapeOnClip ==
  LET f == ReqFacts
  IN  f.clip # Absent =>
        \A ops \in Outputs : ShapedCells(ops) \cap f.clipped = {}

\* both adapters drew around a safe-zone clip: a dark cell that overlaps the
\* padding but not the inner contentSize square got no shape
C3_Witness ==
  LET f == ReqFacts
  IN  /\ canvas.settled = "resolved" /\ svg.settled = "resolved"
      /\ f.clip # Absent
      /\ Lt(Num(0), Get(f.clip).padding)
      /\ ShapedCells(CanvasOps) # {} /\ ShapedCells(SvgParts) # {}
      /\ \E c \in ((f.dark \cap f.clipped) \ f.corner) \ f.underContent :
           c \notin ShapedCells(CanvasOps) \cup ShapedCells(SvgParts)

\* the length of the run of cells of E that starts at (x, y) and goes right
RECURSIVE RunLength(_, _, _)
RunLength(E, x, y) == IF <<x + 1, y>> \in E THEN 1 + RunLength(E, x + 1, y) ELSE 1

\* the maximal horizontal runs <<x, y, n>> of the cells of E
MaximalRuns(E) ==
  {<<c[1], c[2], RunLength(E, c[1], c[2])>> : c \in {d \in E : <<d[1] - 1, d[2]>> \notin E}}

\* C4: in pills style each adapter emits exactly one rounded rectangle per
\* maximal horizontal run of consecutive dark, non-finder, non-clipped cells:
\* the emitted runs are the maximal runs, each emitted once, so every eligible
\* cell lies in exactly one run, no run covers another cell, runs never
\* overlap and none is left unflushed at the end of a row.
C4_OneShapePerRun ==
  LET f == ReqFacts
      runs == MaximalRuns((f.dark \ f.corner) \ f.clipped)
  IN  options.style = "pills" =>
        \A ops \in Outputs :
          ops # <<>> =>
            LET shapes == SelectSeq(ops, LAMBDA o : o.layer = "module")
                ats == ShapeAts(ops)
            IN  /\ Range(ats) = runs
                /\ Len(ats) = Cardinality(runs)
                /\ \A i \in 1..Len(shapes) :
                     shapes[i].part = "run" /\ Lt(Num(0), shapes[i].r)

\* both adapters drew pills: a run of five or more cells as one shape, a row
\* holding several runs, a run broken by the logo clip and a run flushed at
\* the end of its row
C4_Witness ==
  LET f == ReqFacts
      ats == Range(ShapeAts(CanvasOps))
  IN  /\ options.style = "pills"
      /\ canvas.settled = "resolved" /\ svg.settled = "resolved"
      /\ Range(ShapeAts(SvgParts)) = ats
      /\ \E a \in ats : a[3] >= 5
      /\ \E a, b \in ats : a[2] = b[2] /\ a[1] < b[1]
      /\ \E a \in ats : <<a[1] + a[3], a[2]>> \in f.clipped \cap f.dark
      /\ \E a \in ats : a[1] + a[3] = f.size

\* the colour a drawing shows at the point (px, py): that of the last
\* operation whose box holds the point, "transparent" where the last one
\* cleared or none painted
PointColour(ops, px, py) ==
  LET paints == {i \in 1..Len(ops) :
                   /\ ops[i].layer \in {"clear", "background", "finder", "module",
                                        "logo", "label"}
                   /\ Le(ops[i].box.x, px) /\ Lt(px, Add(ops[i].box.x, ops[i].box.w))
                   /\ Le(ops[i].box.y, py) /\ Lt(py, Add(ops[i].box.y, ops[i].box.h))}
      last == CHOOSE i \in paints : \A j \in paints : j <= i
  IN  IF paints = {} \/ ops[last].fill = None THEN "transparent" ELSE ops[last].fill

\* the point at the middle of cell (x, y)
CellMiddle(geometry, x, y) ==
  [x |-> Add(geometry.offset, Div(Times(2 * x + 1, geometry.moduleSize), Num(2))),
   y |-> Add(geometry.offset, Div(Times(2 * y + 1, geometry.moduleSize), Num(2)))]

\* the top-left cells of the three finder patterns
FinderCorners(size) == {<<0, 0>>, <<size - 7, 0>>, <<0, size - 7>>}

\* C5: in both adapters and every style exactly three finder patterns are
\* drawn, top-left, top-right and bottom-left, each as an outer 7x7 square in
\* the foreground, a middle 5x5 square in the background colour (opaque) or
\* cleared (transparentBackground), and an inner 3x3 square in the foreground;
\* in the finished output the ring between the 5x5 and 3x3 squares is never
\* foreground-coloured, transparent mode included.
C5_FinderLayers ==
  LET f == ReqFacts
  IN  \A ops \in Outputs :
        ops # <<>> =>
          LET finder == SelectSeq(ops, LAMBDA o : o.layer = "finder")
              outer == {i \in 1..Len(finder) : finder[i].part = "outer"}
              center == {i \in 1..Len(finder) : finder[i].part = "center"}
              Holds(o, p) == /\ Le(o.box.x, p.x) /\ Lt(p.x, Add(o.box.x, o.box.w))
                             /\ Le(o.box.y, p.y) /\ Lt(p.y, Add(o.box.y, o.box.h))
          IN  /\ Cardinality(outer) = 3 /\ Cardinality(center) = 3
              /\ \A i \in outer \cup center : finder[i].fill = options.foreground
              /\ \A c \in FinderCorners(f.size) :
                   LET middle == CellMiddle(f.geometry, c[1] + 3, c[2] + 3)
                       ring == CellMiddle(f.geometry, c[1] + 1, c[2] + 3)
                       edge == CellMiddle(f.geometry, c[1], c[2] + 3)
                   IN  /\ \E i \in outer : Holds(finder[i], edge)
                       /\ \E i \in center : Holds(finder[i], middle) /\ ~Holds(finder[i], ring)
                       /\ PointColour(ops, edge.x, edge.y) = options.foreground
                       /\ PointColour(ops, middle.x, middle.y) = options.foreground
                       /\ PointColour(ops, ring.x, ring.y) =
                            (IF options.transparentBackground THEN "transparent"
                             ELSE options.background)
                       /\ PointColour(ops, ring.x, ring.y) # options.foreground

\* the same property of the canvas adapter alone
FinderLayersOnCanvas ==
  LET f == ReqFacts
  IN  CanvasOps # <<>> =>
        \A c \in FinderCorners(f.size) :
          LET ring == CellMiddle(f.geometry, c[1] + 1, c[2] + 3)
          IN  PointColour(CanvasOps, ring.x, ring.y) # options.foreground

\* the step of the fixed drawing order a drawing operation belongs to
StepOf(o) ==
  CASE o.layer \in {"resize", "svg"} /\ o.part = "surface" -> 0
    [] o.layer = "clear" -> 1
    [] o.layer = "background" -> 2
    [] o.layer \in {"group", "finder", "module"} -> 3
    [] o.layer = "logo" -> 4
    [] o.layer = "label" -> 5
    [] OTHER -> 6

\* C8: a successful canvas render resizes the surface, clears it, fills the
\* opaque background (only when not transparent), draws the modules with the
\* finder patterns, then the logo (safe-zone backing before the image), then
\* the label; the vector adapter emits background rect, module group, logo
\* backing then image, label elements in the same order.  No logo operation
\* precedes a module operation and no label operation precedes a logo one.
C8_FixedOrder ==
  /\ \A ops \in Outputs :
       /\ \A i \in 1..(Len(ops) - 1) : StepOf(ops[i]) <= StepOf(ops[i + 1])
       /\ LET logo == SelectSeq(ops, LAMBDA o : o.layer = "logo")
          IN  \A i, j \in 1..Len(logo) :
                (logo[i].part = "safeZone" /\ logo[j].part = "image") => i < j
       /\ ops # <<>> =>
            /\ StepOf(ops[1]) = 0
            /\ (\E i \in 1..Len(ops) : ops[i].layer = "background")
                 <=> ~options.transparentBackground
            /\ \E i \in 1..Len(ops) : ops[i].layer = "finder"
  /\ CanvasOps # <<>> =>
       /\ CanvasOps[1].kind = "resize" /\ CanvasOps[2].kind = "clearRect"
       /\ ~options.transparentBackground =>
            CanvasOps[3].kind = "fillRect" /\ CanvasOps[3].fill = options.background
  /\ SvgParts # <<>> =>
       /\ ~options.transparentBackground =>
            SvgParts[2].kind = "rect" /\ SvgParts[2].fill = options.background
       /\ SvgParts[Len(SvgParts)].kind = "/svg"

\* both adapters drew an opaque request with modules, a logo on a safe-zone
\* backing and a caption
C8_Witness ==
  /\ canvas.settled = "resolved" /\ svg.settled = "resolved"
  /\ ~options.transparentBackground
  /\ \A ops \in Outputs :
       /\ \E i \in 1..Len(ops) : ops[i].layer = "module"
       /\ \E i \in 1..Len(ops) : ops[i].part = "safeZone"
       /\ \E i \in 1..Len(ops) : ops[i].part = "image"
       /\ \E i \in 1..Len(ops) : ops[i].layer = "label"

\* C6: exportRasterImage("jpeg", request) renders with transparentBackground
\* forced to false, so the opaque background is painted over the whole
\* surface even when the caller asked for transparency; png and webp pass the
\* caller's transparentBackground through unchanged; the caller's options
\* object is left as it was.
C6_JpegOpaque ==
  [][(raster.settled = "idle" /\ raster'.settled # "idle") =>
       LET format == raster'.format
           rendered == Get(raster'.rendered)
           ops == raster'.canvas.ops
           fills == {i \in 1..Len(ops) : ops[i].layer = "background"}
       IN  /\ options' = options
           /\ rendered = [options EXCEPT
                            !.pixelRatio = Some(1),
                            !.transparentBackground =
                              IF format = "jpeg" THEN FALSE ELSE @]
           /\ (format = "jpeg" /\ Len(ops) > 1) =>
                /\ ops[3].layer = "background" /\ ops[3].kind = "fillRect"
                /\ ops[3].fill = options.background
                /\ ops[3].box = Box(Num(0), Num(0), Get(raster'.canvas.styleWidth),
                                    Get(raster'.canvas.styleHeight))
                /\ raster'.canvas.width = options.size
           /\ (format # "jpeg" /\ Len(ops) > 1) =>
                (fills # {} <=> ~options.transparentBackground)]_vars

\* a jpeg export of a request that asked for a transparent background
\* resolved, with the background painted
C6_Witness ==
  /\ raster.settled = "resolved" /\ raster.format = "jpeg"
  /\ options.transparentBackground
  /\ \E i \in 1..Len(raster.canvas.ops) : raster.canvas.ops[i].layer = "background"

\* C9: whenever computeLogoClip returns a clip, size = contentSize + 2 * padding
\* with contentSize = matrixSize * moduleSize * sizePercent / 100; without a
\* safe zone padding = 0 and size = contentSize; with one, padding =
\* max(1.5 * moduleSize, 8) >= 8; the clip is centred on the pixel square.
\* sizePercent 20 with a safe zone on 25 modules of 10 pixels gives
\* contentSize 50, padding 15, size 80.
C9_LogoClip ==
  (geo.clipped /\ geo.clip # Absent) =>
    LET clip == Get(geo.clip)
        logo == Get(geo.logo)
        m == geo.moduleSize
    IN  /\ Eq(clip.size, Add(clip.contentSize, Times(2, clip.padding)))
        /\ Eq(clip.contentSize,
              Div(Times(geo.moduleCount * logo.sizePercent, m), Num(100)))
        /\ ~logo.safeZone => Eq(clip.padding, Num(0)) /\ Eq(clip.size, clip.contentSize)
        /\ logo.safeZone =>
             /\ Eq(clip.padding, Max(Mul(F1_5, m), Num(8)))
             /\ Le(Num(8), clip.padding)
        /\ Eq(clip.x, Sub(Div(Num(geo.size), Num(2)), Div(clip.size, Num(2))))
        /\ Eq(clip.y, clip.x)
        /\ (logo.sizePercent = 20 /\ logo.safeZone /\ geo.moduleCount = 25 /\ Eq(m, Num(10)))
             => /\ Eq(clip.contentSize, Num(50))
                /\ Eq(clip.padding, Num(15))
                /\ Eq(clip.size, Num(80))

\* the clip of a 20 percent logo with a safe zone on 25 modules of 10 pixels
C9_Witness ==
  /\ geo.clipped /\ geo.clip # Absent
  /\ Get(geo.logo).sizePercent = 20 /\ Get(geo.logo).safeZone
  /\ geo.moduleCount = 25 /\ Eq(geo.moduleSize, Num(10))
  /\ Eq(Get(geo.clip).size, Num(80))

\* C10: computeModuleSize returns moduleSize = pixelSize / (matrixSize + 8) and
\* offset = 4 * moduleSize, so moduleSize * (matrixSize + 8) = pixelSize: the
\* matrix and a 4-module quiet zone on every side exactly fill the pixel
\* square, at the preview's size as at the export's.
C10_ModuleSize ==
  geo.geometry # Absent =>
    LET g == Get(geo.geometry)
    IN  /\ geo.moduleCount > 0 /\ geo.size > 0
        /\ Eq(g.moduleSize, Q(geo.size, geo.moduleCount + 8))
        /\ Eq(g.offset, Times(4, g.moduleSize))
        /\ Eq(Times(geo.moduleCount + 8, g.moduleSize), Num(geo.size))
        /\ Eq(Add(Times(2, g.offset), Times(geo.moduleCount, g.moduleSize)),
              Num(geo.size))

\* the geometry of a 21-module matrix on the export's pixel square, whose
\* module size is no whole number
C10_Witness ==
  /\ geo.geometry # Absent
  /\ geo.moduleCount = 21 /\ geo.size = EXPORT_SIZE
  /\ ~IsInt(Get(geo.geometry).moduleSize)

\* C7: last request wins for the preview.  Once a newer preview render has
\* started, the completion of a superseded render changes nothing observable:
\* when every render has finished, the canvas does not show the picture of a
\* render that completed superseded, unless it is also the newest render's.
C7_LastRequestWins ==
  LET renders == preview.renders
      n == Len(renders)
  IN  (n > 0 /\ \A i \in 1..n : renders[i].settled # "pending") =>
        \A i \in 1..(n - 1) :
          (renders[i].superseded /\ renders[i].settled = "resolved") =>
            \/ preview.picture.ops # renders[i].drew
            \/ (renders[n].settled = "resolved" /\ renders[n].drew = preview.picture.ops)

\* the part of last-request-wins the cancelled flag keeps: a render that
\* settles after its cleanup ran leaves renderError and isRendering alone
CancelledRenderKeepsFlags ==
  [][\A i \in 1..Len(preview.renders) :
       (/\ Len(preview'.renders) = Len(preview.renders)
        /\ preview.renders[i].settled = "pending"
        /\ preview'.renders[i].settled # "pending"
        /\ preview.renders[i].cancelled)
         => /\ preview'.renderError = preview.renderError
            /\ preview'.isRendering = preview.isRendering]_vars

(***************************************************************************)
(* Captions.                                                               *)
(***************************************************************************)
\* the request carries no caption, or one whose text has no word in it
BlankLabel == options.label = Absent \/ Get(options.label).text.words = <<>>

\* the drawing operations of the label overlay
LabelOps(ops) == SelectSeq(ops, LAMBDA o : o.layer = "label")

\* C11: a request whose caption is empty or blank, whatever its size, weight,
\* alignment and inversion, renders exactly as the same request without a
\* caption: zero lines, height 0, a surface exactly size high on the canvas
\* and in the SVG, and no text and no bar drawn.
C11_BlankLabelIsNoLabel ==
  BlankLabel =>
    /\ canvas.settled # "idle" =>
         /\ canvas = renderQrToCanvas(BlankCanvas, [options EXCEPT !.label = Absent], env)
         /\ canvas.settled = "resolved"
         /\ Get(canvas.layout).labelLayout.lines = <<>>
         /\ Get(canvas.layout).labelLayout.height = Num(0)
         /\ canvas.canvas.styleHeight = Some(Num(options.size))
         /\ canvas.canvas.height = options.size * canvas.ratio
         /\ LabelOps(canvas.canvas.ops) = <<>>
    /\ svg.settled # "idle" =>
         /\ svg = exportSvgMarkup([options EXCEPT !.label = Absent], env)
         /\ svg.settled = "resolved"
         /\ Get(svg.layout).labelLayout.lines = <<>>
         /\ Get(svg.layout).labelLayout.height = Num(0)
         /\ svg.parts[1].box.h = Num(options.size)
         /\ LabelOps(svg.parts) = <<>>

\* both adapters rendered a request with a bold, inverted caption of three
\* blanks
C11_Witness ==
  /\ options.label # Absent
  /\ Get(options.label).text.words = <<>> /\ Get(options.label).text.length = 3
  /\ Get(options.label).weight = "bold" /\ Get(options.label).invert
  /\ canvas.settled = "resolved" /\ svg.settled = "resolved"

\* the label layouts the adapters computed so far
LabelLayouts ==
  {Get(r.layout).labelLayout : r \in {r \in {canvas, svg} : r.settled = "resolved"}}

\* C12: whichever path computeLabelLayout took (blank caption, measured wrap,
\* fallback without a measuring context), its layout has no line exactly when
\* its height is 0, at most three lines, and one width per line.
C12_LabelLayoutShape ==
  \A layout \in LabelLayouts :
    /\ (Len(layout.lines) = 0) <=> Eq(layout.height, Num(0))
    /\ Len(layout.lines) <= 3
    /\ Len(layout.lineWidths) = Len(layout.lines)

\* a caption of five words that wrapped onto five lines was cut to three
C12_Witness ==
  /\ env.measure /\ options.label # Absent
  /\ Len(Get(options.label).text.words) = 5 /\ Get(options.label).size = "lg"
  /\ options.size = PREVIEW_SIZE
  /\ \E layout \in LabelLayouts : Len(layout.lines) = 3

\* the fallback path produced a layout
C12_FallbackTaken ==
  /\ ~env.measure /\ ~BlankLabel
  /\ \E layout \in LabelLayouts : Len(layout.lines) = 1

(***************************************************************************)
(* Logos.                                                                  *)
(***************************************************************************)
\* the layouts the adapters derived so far
Layouts == {Get(r.layout) : r \in {r \in {canvas, svg} : r.settled = "resolved"}}

\* the request carries a logo with a decoded image or a data URL
CarriesLogo ==
  /\ options.logo # Absent
  /\ (Get(options.logo).image # None \/ Get(options.logo).dataUrl # None)

\* C13: the encoder is asked for level H exactly when the request carries a
\* logo with an image handle or a data URL, and for level Q otherwise.
C13_EccLevel ==
  \A layout \in Layouts : layout.level = (IF CarriesLogo THEN "H" ELSE "Q")

\* a request whose logo has a data URL and no decoded image was built with H
C13_Witness ==
  /\ options.logo # Absent
  /\ Get(options.logo).image = None /\ Get(options.logo).dataUrl # None
  /\ canvas.settled = "resolved" /\ Get(canvas.layout).level = "H"

\* a request without a logo, and one whose logo has neither, were built with Q
C13_WitnessQ ==
  /\ options.logo # Absent /\ ~CarriesLogo
  /\ svg.settled = "resolved" /\ Get(svg.layout).level = "Q"

\* the drawing operations of the logo overlay
LogoOps(ops) == SelectSeq(ops, LAMBDA o : o.layer = "logo")

\* a logo is requested (it has a data URL and a size) and its image has not
\* been decoded
LogoWithoutImage ==
  /\ options.logo # Absent
  /\ Get(options.logo).image = None
  /\ Get(options.logo).dataUrl # None
  /\ Get(options.logo).sizePercent > 0

\* C17: while a requested logo has no decoded image, neither adapter draws
\* the safe-zone backing or the image, both still skip every cell under the
\* logo clip, and the render does not fail.
C17_NoImageNoLogo ==
  LogoWithoutImage =>
    /\ canvas.settled # "idle" =>
         /\ canvas.settled = "resolved"
         /\ LogoOps(canvas.canvas.ops) = <<>>
         /\ ShapedCells(canvas.canvas.ops) \cap ReqFacts.clipped = {}
    /\ svg.settled # "idle" =>
         /\ svg.settled = "resolved"
         /\ LogoOps(svg.parts) = <<>>
         /\ ShapedCells(svg.parts) \cap ReqFacts.clipped = {}

\* the canvas adapter alone: nothing of the logo drawn, the square left blank
NoImageNoLogoOnCanvas ==
  (LogoWithoutImage /\ canvas.settled # "idle") =>
    /\ canvas.settled = "resolved"
    /\ LogoOps(canvas.canvas.ops) = <<>>
    /\ ShapedCells(canvas.canvas.ops) \cap ReqFacts.clipped = {}
    /\ ReqFacts.dark \cap ReqFacts.clipped # {}

\* the vector adapter skips the cells under the clip as well, and does not fail
NoImageClipInSvg ==
  (LogoWithoutImage /\ svg.settled # "idle") =>
    /\ svg.settled = "resolved"
    /\ ShapedCells(svg.parts) \cap ReqFacts.clipped = {}

(***************************************************************************)
(* Pixel ratios.                                                           *)
(***************************************************************************)
\* size + labelLayout.height of the request, in CSS pixels
SurfaceHeight ==
  Add(Num(options.size), computeLabelLayout(options.label, options.size, env).height)

\* the ratio a plain render of the request uses
PlainRatio ==
  IF options.pixelRatio # Absent THEN Get(options.pixelRatio)
  ELSE IF env.devicePixelRatio # Absent THEN Get(env.devicePixelRatio) ELSE 1

\* the raster export rendered at ratio 1 on a bitmap size wide
ExportAtRatioOne ==
  /\ Get(raster.rendered).pixelRatio = Some(1)
  /\ raster.canvas.width = options.size
  /\ raster.canvas.styleWidth = Some(Num(options.size))
  /\ raster.canvas.styleHeight = Some(SurfaceHeight)

\* a plain render scales its bitmap by the requested ratio, else the device's
PlainRenderScaled ==
  canvas.settled # "idle" =>
    /\ canvas.ratio = PlainRatio
    /\ canvas.canvas.width = options.size * PlainRatio
    /\ canvas.canvas.height = Round(Times(PlainRatio, SurfaceHeight))
    /\ canvas.canvas.styleHeight = Some(SurfaceHeight)

\* C14 as stated: whatever window.devicePixelRatio and the caller's
\* pixelRatio, exportRasterImage renders at ratio 1 on a surface exactly
\* size wide and size + labelHeight high; a render without pixelRatio is
\* scaled by the device pixel ratio.
C14_ExportExactHeight ==
  /\ raster.settled # "idle" =>
       /\ ExportAtRatioOne
       /\ Num(raster.canvas.height) = Norm(SurfaceHeight)
  /\ PlainRenderScaled

\* C14, amended: whatever window.devicePixelRatio and the caller's
\* pixelRatio, exportRasterImage renders at ratio 1: the bitmap is size wide
\* and Math.round(size + labelHeight) high, its layout size is size by
\* size + labelHeight; a render without pixelRatio is scaled by the device
\* pixel ratio, and by 1 where the device reports none.
C14_ExportUnscaled ==
  /\ raster.settled # "idle" =>
       /\ ExportAtRatioOne
       /\ raster.canvas.height = Round(SurfaceHeight)
  /\ PlainRenderScaled

\* an export at 1024 pixels of a request that asked for ratio 3, on a device
\* of ratio 2, with a caption whose height is no whole number
C14_Witness ==
  /\ raster.settled = "resolved"
  /\ options.pixelRatio = Some(3) /\ env.devicePixelRatio = Some(2)
  /\ options.size = EXPORT_SIZE
  /\ ~IsInt(SurfaceHeight)
  /\ raster.canvas.width = EXPORT_SIZE

\* a render without pixelRatio on a device of ratio 2 made a bitmap twice as wide
C14_PreviewScaled ==
  /\ canvas.settled = "resolved" /\ options.pixelRatio = Absent
  /\ env.devicePixelRatio = Some(2) /\ canvas.canvas.width = 2 * options.size

(***************************************************************************)
(* Failures of the preview.                                                *)
(***************************************************************************)
\* the newest preview render failed, nothing superseded it and no render is
\* still running
NewestPreviewFailed ==
  /\ Len(preview.renders) > 0
  /\ preview.current = Len(preview.renders)
  /\ preview.renders[Len(preview.renders)].settled = "rejected"
  /\ ~preview.renders[Len(preview.renders)].cancelled
  /\ \A i \in 1..Len(preview.renders) : preview.renders[i].settled # "pending"

\* C15: when the payload of a preview render cannot be encoded, the failure
\* is shown as a render error and the preview canvas is cleared to blank: no
\* picture of an earlier payload stays on it.
C15_FailedPreviewCleared ==
  NewestPreviewFailed =>
    /\ preview.renderError # None
    /\ preview.picture.ops = <<>>

\* the part that holds: the failure is shown as a render error, and the
\* failed render itself drew nothing
FailedPreviewSurfaced ==
  NewestPreviewFailed =>
    /\ preview.renderError = "QRCode.create threw"
    /\ ~preview.isRendering
    /\ preview.renders[Len(preview.renders)].drew = <<>>

(***************************************************************************)
(* Downloads.                                                              *)
(***************************************************************************)
\* export i of preview.exports settles in this step
DownloadSettles(i) ==
  /\ i <= Len(preview'.exports)
  /\ preview.exports[i].settled = "pending"
  /\ preview'.exports[i].settled # "pending"

\* C16: a raster export whose toBlob calls back with null rejects with an
\* error; handleDownload then triggers no download, records the message,
\* resets downloading to null (the button of the format is not held disabled
\* by it) and starts no export of its own.
C16_BlobFailure ==
  [][\A i \in 1..Len(preview.exports) :
       (DownloadSettles(i) /\ preview.exports[i].format # "svg" /\ ~env.toBlob) =>
         /\ preview'.exports[i].settled = "rejected"
         /\ preview'.exports[i].error = "Unable to generate image blob"
         /\ preview'.files = preview.files
         /\ preview'.renderError = "Unable to generate image blob"
         /\ preview'.downloading = None
         /\ Len(preview'.exports) = Len(preview.exports)
         /\ \A j \in 1..Len(preview.exports) :
              j # i => preview'.exports[j] = preview.exports[j]]_vars

\* a png download failed in toBlob: nothing downloaded, the message recorded,
\* and its button enabled again
C16_Witness ==
  /\ ~env.toBlob
  /\ Len(preview.exports) = 1
  /\ preview.exports[1].format = "png" /\ preview.exports[1].settled = "rejected"
  /\ preview.files = <<>>
  /\ preview.renderError = "Unable to generate image blob"
  /\ preview.downloading = None
  /\ ~buttonDisabled(preview, "png")

\* a failed download was tried again
C16_Retried ==
  /\ Len(preview.exports) = 2
  /\ preview.exports[1].format = "png" /\ preview.exports[1].settled = "rejected"
  /\ preview.exports[2].format = "png"

\* in the UI state p every download button is disabled
AllButtonsDisabled(p) == \A format \in DownloadFormats : buttonDisabled(p, format)

\* downloads are held back in p whenever the content is not ready, a preview
\* render is in progress or an uploaded logo is loading; and without ready
\* content a call of handleDownload changes nothing
DownloadsGated(p) ==
  /\ ~contentReadyOf(p) =>
       /\ AllButtonsDisabled(p)
       /\ \A format \in DownloadFormats : handleDownload(p, format) = p
  /\ p.isRendering => AllButtonsDisabled(p)
  /\ (logoAssetOf(p) /\ p.logoStatus = "loading") => AllButtonsDisabled(p)

C19_LogoLoading ==
  /\ contentReadyOf(preview) /\ ~preview.isRendering
  /\ logoAssetOf(preview) /\ preview.logoStatus = "loading"
  /\ AllButtonsDisabled(preview)

(***************************************************************************)
(* A failed Preparing step.                                                *)
(***************************************************************************)
\* C20: when building the matrix fails, renderQrToCanvas rejects and leaves
\* the canvas it was given as it was: width, height, style size and pixels
\* unchanged, no drawing call issued.
C20_FailedBuildLeavesCanvas ==
  [][\A i \in 1..Len(preview.renders) :
       (/\ Len(preview'.renders) = Len(preview.renders)
        /\ preview.renders[i].settled = "pending"
        /\ preview'.renders[i].settled # "pending"
        /\ ~preview.renders[i].options.text.encodable)
         => /\ preview'.renders[i].settled = "rejected"
            /\ preview'.renders[i].drew = <<>>
            /\ preview'.picture = preview.picture]_vars

\* a render failed on a canvas that held the picture of an earlier render,
\* at the size that render gave it
C20_Witness ==
  /\ Len(preview.renders) = 2
  /\ preview.renders[1].settled = "resolved" /\ preview.renders[1].drew # <<>>
  /\ preview.renders[2].settled = "rejected"
  /\ preview.picture.ops = preview.renders[1].drew
  /\ preview.picture.width = 2 * PREVIEW_SIZE

\* the characters of value that are letters or digits
IsAlphanumeric(c) ==
  \/ MatchesSlugClass(c)
  \/ \E k \in DOMAIN UpperLetters : UpperLetters[k] = c

\* the decimal digit of n at the given place (1, 10, 100, 1000)
DigitAt(n, place) == DigitChars[((n \div place) % 10) + 1]

\* YYYYMMDD-HHmmss of a local time, every field but the year on two digits
Stamp(now) ==
  <<DigitAt(now.fullYear, 1000), DigitAt(now.fullYear, 100),
    DigitAt(now.fullYear, 10), DigitAt(now.fullYear, 1),
    DigitAt(now.month + 1, 10), DigitAt(now.month + 1, 1),
    DigitAt(now.date, 10), DigitAt(now.date, 1), "-",
    DigitAt(now.hours, 10), DigitAt(now.hours, 1),
    DigitAt(now.minutes, 10), DigitAt(now.minutes, 1),
    DigitAt(now.seconds, 10), DigitAt(now.seconds, 1)>>

SlugShape(value, slug) ==
  /\ Len(slug) \in 1..SLUG_LENGTH
  /\ \A i \in 1..Len(slug) : slug[i] = "-" \/ MatchesSlugClass(slug[i])
  /\ (\A i \in 1..Len(value) : ~IsAlphanumeric(value[i])) => slug = <<"q", "r">>

\* C18: a single-image download is named qr-<slug>-<style>-<YYYYMMDD-HHmmss>.<ext>
\* with the local time of the download, every field but the year zero-padded to
\* two digits; and createSlug returns, for every input, a non-empty string of at
\* most 40 characters, each a lowercase letter, a digit or a hyphen, which is
\* "qr" when the input has no letter and no digit.
C18_FilenameAndSlug ==
  /\ naming.slug # Absent => SlugShape(naming.value, Get(naming.slug))
  /\ naming.download # Absent =>
       Get(naming.download).filename =
         <<"q", "r", "-">> \o Get(naming.slug)
           \o <<"-", Get(naming.download).style, "-">>
           \o Stamp(Get(naming.download).now)
           \o <<".", Get(naming.download).formatId>>

\* a download in January, at a time whose fields all need padding, named after
\* a summary that was lowercased, had its runs replaced and its ends stripped
C18_Witness ==
  /\ naming.value = <<"/", "Z", " ", "7">>
  /\ naming.slug = Some(<<"z", "-", "7">>)
  /\ naming.download # Absent
  /\ Get(naming.download).now.month = 0
  /\ Get(naming.download).now.seconds = 9

\* a summary longer than the slug: the slug is cut at 40 characters
C18_Truncated ==
  /\ naming.slug # Absent
  /\ Len(naming.value) > SLUG_LENGTH
  /\ Len(Get(naming.slug)) = SLUG_LENGTH
  /\ Get(naming.slug)[SLUG_LENGTH] = "-"

\* a summary without a letter or a digit falls back to "qr"
C18_Fallback ==
  /\ naming.value = <<"-", " ", "/">>
  /\ naming.slug = Some(<<"q", "r">>)
  /\ naming.download # Absent

\* the words of the lines, in order
RECURSIVE WordsOf(_)
WordsOf(lines) == IF lines = <<>> THEN <<>> ELSE Head(lines) \o WordsOf(Tail(lines))

\* the line measures at most the width less 32 under the request's font
FitsLine(line, layout) ==
  Le(measureText(line, layout.font.px, env.glyph), Num(options.size - 32))

\* lines is the greedy wrap of words, cut after three lines
GreedyLines(lines, words, layout) ==
  /\ Len(lines) <= 3
  /\ Len(WordsOf(lines)) <= Len(words)
  /\ WordsOf(lines) = SubSeq(words, 1, Len(WordsOf(lines)))
  /\ \A i \in 1..Len(lines) :
       /\ lines[i] # <<>>
       /\ FitsLine(lines[i], layout) \/ Len(lines[i]) = 1
       /\ i < Len(lines) => ~FitsLine(Append(lines[i], lines[i + 1][1]), layout)
  /\ Len(lines) < 3 => WordsOf(lines) = words
  /\ (Len(lines) = 3 /\ WordsOf(lines) # words) =>
       ~FitsLine(Append(lines[3], words[Len(WordsOf(lines)) + 1]), layout)

\* C21: with a measuring context, the lines of a caption are the first three
\* lines, at most, of the greedy wrap of its words in their order: each line is
\* not empty and either measures at most width - 32 or is one word, a line
\* ends exactly where the next word would not fit, every word is placed unless
\* it falls after the third line, and "Scan me" at size sm and width 360 is one
\* line.
C21_GreedyWrap ==
  (env.measure /\ ~BlankLabel) =>
    \A layout \in LabelLayouts :
      /\ GreedyLines(layout.lines, Get(options.label).text.words, layout)
      /\ (/\ Get(options.label).text = ScanMe
          /\ Get(options.label).size = "sm"
          /\ options.size = 360) => layout.lines = <<ScanMe.words>>

\* a caption of four words wrapped onto four lines, the first of them one
\* word wider than the line, was cut to three lines on both adapters
C21_Witness ==
  /\ env.measure /\ options.label # Absent
  /\ Get(options.label).text.words = <<30, 12, 30, 12>>
  /\ Get(options.label).size = "lg" /\ options.size = PREVIEW_SIZE
  /\ canvas.settled = "resolved" /\ svg.settled = "resolved"
  /\ \A layout \in LabelLayouts : layout.lines = <<<<30>>, <<12>>, <<30>>>>

\* "Scan me" at size sm and width 360 was laid out on one line
C21_ScanMe ==
  /\ env.measure /\ options.label # Absent
  /\ Get(options.label).text = ScanMe /\ Get(options.label).size = "sm"
  /\ options.size = 360
  /\ canvas.settled = "resolved"
  /\ Get(canvas.layout).labelLayout.lines = <<<<4, 2>>>>

\* a line of several words followed by a further line
C21_SharedLine ==
  /\ env.measure
  /\ \E layout \in LabelLayouts :
       Len(layout.lines) >= 2 /\ Len(layout.lines[1]) >= 2

\* C24: without a measuring context the caption is still wrapped greedily
\* into at most three lines, a line's width taken as 0.45 * fontSize per
\* character, and the block is as high as on the measured path: the lines
\* times the line height, plus 8.
C24_FallbackWraps ==
  (~env.measure /\ ~BlankLabel) =>
    \A layout \in LabelLayouts :
      /\ layout.lines =
           FirstN(WrapWords(Get(options.label).text.words, <<>>,
                            Num(options.size - 32), layout.font.px, F0_45), 3)
      /\ Eq(layout.height,
            Add(Mul(Num(Len(layout.lines)), layout.lineHeight), Num(8)))

\* what the fallback does: the whole caption on one line, its width
\* 0.45 * fontSize per character capped at width - 32, the block one line
\* height plus 24 high
FallbackOneLine ==
  (~env.measure /\ ~BlankLabel) =>
    \A layout \in LabelLayouts :
      /\ layout.lines = <<Get(options.label).text.words>>
      /\ layout.lineWidths =
           <<Min(Num(options.size - 32),
                 Mul(Num(Get(options.label).text.length * layout.font.px), F0_45))>>
      /\ Eq(layout.height, Add(layout.lineHeight, Num(24)))

\* the bottom edge of the matrix of a render: offset + matrixSize * moduleSize
MatrixBottom(layout) ==
  Add(layout.geometry.offset, Times(layout.matrixSize, layout.geometry.moduleSize))

\* the bottom of the surface of a render: size + labelHeight
SurfaceBottom(layout) == Add(Num(options.size), layout.labelLayout.height)

\* the top of a label drawing: of a bar its y; of a text its y when the
\* baseline is the top of the em box, and one font size above its y when the
\* baseline is the alphabetic one
LabelTop(op) ==
  IF op.part = "text" /\ op.info.baseline = "alphabetic"
  THEN Sub(op.box.y, op.info.fontSize)
  ELSE op.box.y

\* the bottom of a label drawing; descenders below an alphabetic baseline are
\* left out
LabelBottom(op) ==
  IF op.part = "text" /\ op.info.baseline = "alphabetic"
  THEN op.box.y
  ELSE Add(op.box.y, op.box.h)

\* the label drawings of the renders that resolved, each with its layout
LabelDrawings ==
  {<<Get(canvas.layout), LabelOps(CanvasOps)[i]>> : i \in 1..Len(LabelOps(CanvasOps))}
    \cup {<<Get(svg.layout), LabelOps(SvgParts)[i]>> : i \in 1..Len(LabelOps(SvgParts))}

\* C22: on the canvas and in the SVG, every label drawing (the text of each
\* line and, when inverted, its bar) lies at or below the bottom edge of the
\* matrix and at or above the bottom of the surface.
C22_LabelBand ==
  \A d \in LabelDrawings :
    /\ Le(MatrixBottom(d[1]), LabelTop(d[2]))
    /\ Le(LabelBottom(d[2]), SurfaceBottom(d[1]))

\* what holds of the band: no label drawing reaches below the surface, and the
\* first line always starts above the bottom edge of the matrix
LabelBandBottom ==
  \A d \in LabelDrawings :
    /\ Le(LabelBottom(d[2]), SurfaceBottom(d[1]))
    /\ d[2].at = <<0>> => Lt(LabelTop(d[2]), MatrixBottom(d[1]))

\* the corner radius a bar is drawn with: the one asked for, at most half the
\* bar's width and half its height
BarRadius(op) ==
  Min(op.r, Min(Div(op.box.w, Num(2)), Div(op.box.h, Num(2))))

\* the two adapters drew the same label items in the same places: per line
\* the same anchor x, alignment and y, the same colours, and for an inverted
\* caption the same rectangle of the bar under a text in background colour
SameLabelPlacement(c, v) ==
  /\ Len(c) = Len(v)
  /\ \A i \in 1..Len(c) :
       /\ c[i].part = v[i].part /\ c[i].at = v[i].at /\ c[i].fill = v[i].fill
       /\ c[i].box.x = v[i].box.x /\ c[i].box.y = v[i].box.y
       /\ c[i].part = "bar" =>
            /\ c[i].box = v[i].box
            /\ c[i].fill = options.foreground
       /\ c[i].part = "text" =>
            /\ mapLabelAlign(c[i].info.align) = v[i].info.align
            /\ c[i].info.fontWeight = v[i].info.fontWeight
            /\ c[i].fill = IF Get(options.label).invert
                           THEN options.background ELSE options.foreground
  /\ Get(options.label).invert =>
       Len(SelectSeq(c, LAMBDA o : o.part = "bar"))
         = Len(SelectSeq(c, LAMBDA o : o.part = "text"))
  /\ ~Get(options.label).invert => \A i \in 1..Len(c) : c[i].part = "text"

\* the two adapters drew the label at the same font size, the size-class
\* fraction of the width, and the bars with the same corner radius
SameLabelSizes(c, v) ==
  \A i \in 1..Len(c) :
    /\ c[i].part = "text" =>
         /\ Eq(c[i].info.fontSize, v[i].info.fontSize)
         /\ Eq(v[i].info.fontSize,
               Times(options.size, LABEL_FONT_SCALE[Get(options.label).size]))
    /\ c[i].part = "bar" => Eq(BarRadius(c[i]), BarRadius(v[i]))

BothLabelled ==
  /\ canvas.settled = "resolved" /\ svg.settled = "resolved"
  /\ LabelOps(CanvasOps) # <<>>

\* C23: for one request the canvas and the SVG draw the label alike: the same
\* font size (the size-class fraction of the width), the same anchor x per
\* alignment, the same y per line and, inverted, the same bar rectangle and
\* corner radius under a text in background colour; not inverted, a text in
\* foreground colour and no bar.
C23_LabelConsistent ==
  BothLabelled =>
    /\ SameLabelPlacement(LabelOps(CanvasOps), LabelOps(SvgParts))
    /\ SameLabelSizes(LabelOps(CanvasOps), LabelOps(SvgParts))

\* what the adapters share: the placement, the colours and the bar rectangles
LabelPlacementShared ==
  BothLabelled => SameLabelPlacement(LabelOps(CanvasOps), LabelOps(SvgParts))

\* what they never share: the corner radius of a bar, smaller in the SVG
BarRadiusDiffers ==
  BothLabelled =>
    \A i \in 1..Len(LabelOps(CanvasOps)) :
      LabelOps(CanvasOps)[i].part = "bar" =>
        Lt(BarRadius(LabelOps(SvgParts)[i]), BarRadius(LabelOps(CanvasOps)[i]))

\* the font sizes agree only where the unrounded size of the SVG is whole
FontSizeDiffers ==
  BothLabelled =>
    \A i \in 1..Len(LabelOps(CanvasOps)) :
      LabelOps(CanvasOps)[i].part = "text" =>
        (Eq(LabelOps(CanvasOps)[i].info.fontSize, LabelOps(SvgParts)[i].info.fontSize)
           <=> IsInt(LabelOps(SvgParts)[i].info.fontSize))

\* C25: in classic style with a module size of at least 1, the rectangle of
\* every cell has whole x, y, width and height, is at least 1 wide and high,
\* and ends exactly where the rectangle of the next cell begins, to the right
\* and below, whether the module size is whole or not.
C25_PixelSnapping ==
  (geo.rects # Absent /\ Le(Num(1), Get(geo.geometry).moduleSize)) =>
    LET rects == Get(geo.rects)
        last == geo.moduleCount - 1
    IN  \A x \in 0..last, y \in 0..last :
          /\ rects[x][y].x \in Int /\ rects[x][y].y \in Int
          /\ rects[x][y].width \in Int /\ rects[x][y].height \in Int
          /\ rects[x][y].width >= 1 /\ rects[x][y].height >= 1
          /\ x < last => rects[x][y].x + rects[x][y].width = rects[x + 1][y].x
          /\ y < last => rects[x][y].y + rects[x][y].height = rects[x][y + 1].y

\* the rectangles of a 21-module matrix on the preview's pixel square, whose
\* modules are 360/29 pixels: cells 12 and 13 pixels wide abut
C25_Witness ==
  /\ geo.rects # Absent
  /\ geo.moduleCount = 21 /\ geo.size = PREVIEW_SIZE
  /\ ~IsInt(Get(geo.geometry).moduleSize)
  /\ \E x \in 0..19 : Get(geo.rects)[x][0].width # Get(geo.rects)[x + 1][0].width

\* the rectangles of a 21-module matrix with modules of 10 pixels
C25_WholeModules ==
  /\ geo.rects # Absent
  /\ geo.moduleCount = 21 /\ geo.size = 290
  /\ Get(geo.geometry).moduleSize = Num(10)
  /\ Get(geo.rects)[20][20] = [x |-> 240, y |-> 240, width |-> 10, height |-> 10]

\* below a module size of 1 the rectangles keep a width of 1 and overlap
C25_SmallModulesOverlap ==
  /\ geo.rects # Absent
  /\ Lt(Get(geo.geometry).moduleSize, Num(1))
  /\ \E x \in 0..(geo.moduleCount - 2) :
       Get(geo.rects)[x][0].x + Get(geo.rects)[x][0].width > Get(geo.rects)[x + 1][0].x

\* the top left corners of the three finder zones on the geometry g of an
\* n-module matrix
FinderZoneCorners(n, g) ==
  {<<g.offset, g.offset>>,
   <<Add(g.offset, Times(n - 7, g.moduleSize)), g.offset>>,
   <<g.offset, Add(g.offset, Times(n - 7, g.moduleSize))>>}

\* the clip square and the 7 x 7 module zone with top left corner z share area
ClipMeetsZone(clip, z, g) ==
  /\ Lt(clip.x, Add(z[1], Times(7, g.moduleSize)))
  /\ Lt(z[1], Add(clip.x, clip.size))
  /\ Lt(clip.y, Add(z[2], Times(7, g.moduleSize)))
  /\ Lt(z[2], Add(clip.y, clip.size))

\* C26: for every matrix size and every logo size the slider allows, with or
\* without the safe zone, the logo clip square meets none of the three 7 x 7
\* finder zones.
C26_ClipAvoidsFinders ==
  (geo.clipped /\ geo.clip # Absent) =>
    \A z \in FinderZoneCorners(geo.moduleCount, Get(geo.geometry)) :
      ~ClipMeetsZone(Get(geo.clip), z, Get(geo.geometry))

\* the clip of a logo without safe zone stays clear of the finder zones
\* exactly when its share of the matrix is at most (n - 14) / n
ClipClearWithoutSafeZone ==
  (geo.clipped /\ geo.clip # Absent /\ ~Get(geo.logo).safeZone) =>
    ((\A z \in FinderZoneCorners(geo.moduleCount, Get(geo.geometry)) :
        ~ClipMeetsZone(Get(geo.clip), z, Get(geo.geometry)))
       <=> geo.moduleCount * Get(geo.logo).sizePercent <= 100 * (geo.moduleCount - 14))

\* every preview render that was started has settled
AllRendersSettled ==
  \A i \in 1..Len(preview.renders) : preview.renders[i].settled # "pending"

\* C27: isRendering never stays stuck.  Once every started preview render has
\* settled no callback is left that could reset the flag, so it has to be
\* false by then, also when the render in flight was superseded by the
\* content becoming invalid.
C27_RenderingEnds == AllRendersSettled => ~preview.isRendering

\* what holds: once every render has settled, isRendering is false unless the
\* last run of the effect took the early return for content that is not ready
RenderingEndsAfterRender ==
  (AllRendersSettled /\ preview.current # 0) => ~preview.isRendering

\* the stuck state: content not ready, nothing in flight, isRendering true
RenderingStuck ==
  /\ AllRendersSettled /\ preview.isRendering
  /\ preview.current = 0 /\ ~Get(preview.props).contentReady

\* in the stuck state no callback of the component is left to run: only new
\* props can end it
StuckUntilNewProps == RenderingStuck => ~ENABLED SettlePreviewRender

\* the exports of downloads that are in flight
ExportsInFlight ==
  {i \in 1..Len(preview.exports) : preview.exports[i].settled = "pending"}

\* C28: while the export a download of format f started is in flight,
\* downloading is f (its button is disabled and reads 'Preparing'), whatever
\* other export starts or completes meanwhile, and downloading is null only
\* when no export is in flight.
C28_DownloadingTracksExport ==
  /\ \A i \in ExportsInFlight : preview.downloading = preview.exports[i].format
  /\ preview.downloading = None => ExportsInFlight = {}

\* what holds: downloading is the format of an export in flight as long as no
\* other download was started
SoleDownloadTracked ==
  (Len(preview.exports) = 1 /\ ExportsInFlight = {1}) =>
    /\ preview.downloading = preview.exports[1].format
    /\ buttonDisabled(preview, preview.exports[1].format)

\* a png export is in flight while downloading names the svg download started
\* after it, and the png button is enabled again
OverwrittenByLaterDownload ==
  /\ Len(preview.exports) = 2 /\ ExportsInFlight = {1, 2}
  /\ preview.exports[1].format = "png" /\ preview.exports[2].format = "svg"
  /\ preview.downloading = "svg"
  /\ ~buttonDisabled(preview, "png")

\* a png export is in flight while downloading is null: the svg download
\* started after it completed first
ResetByOtherDownload ==
  /\ Len(preview.exports) = 2 /\ ExportsInFlight = {1}
  /\ preview.exports[1].format = "png" /\ preview.exports[2].format = "svg"
  /\ preview.downloading = None

\* a callback of load i runs in this step
CallbackRuns(i) ==
  /\ i \in 1..Len(logoHook.loads)
  /\ logoHook.loads[i].state = "loading"
  /\ logoHook'.loads[i].state # "loading"

\* C29: useLogoImage never exposes a stale handle: the image it returns is
\* null or the image decoded from the current source, it is not null unless
\* the status is 'ready', and the load or error callback of a superseded
\* source changes neither the image nor the status.
C29_NoStaleImage ==
  /\ logoHook.image # Absent =>
       /\ Get(logoHook.image).source = logoHook.source
       /\ logoHook.status = "ready"

\* what holds: the callbacks of a superseded source change nothing
StaleCallbackIgnored ==
  [][\A i \in 1..MaxLoads :
       (CallbackRuns(i) /\ logoHook.loads[i].cancelled) =>
         /\ logoHook'.image = logoHook.image
         /\ logoHook'.status = logoHook.status]_vars

\* what holds: without a source there is no image, and a ready status comes
\* with the image of the current source
ReadyImageIsCurrent ==
  /\ logoHook.source = None => logoHook.image = Absent /\ logoHook.status = "idle"
  /\ logoHook.status = "ready" =>
       /\ logoHook.image # Absent
       /\ Get(logoHook.image).source = logoHook.source
  /\ logoHook.status = "error" => logoHook.image = Absent

\* the logo was replaced: the hook reports loading for the new source and
\* still returns the image of the old one
StaleImageWhileLoading ==
  /\ logoHook.source = "data:b" /\ logoHook.status = "loading"
  /\ logoHook.image = Some([load |-> 1, source |-> "data:a"])

(***************************************************************************)
(* C30: batch export                                                       *)
(***************************************************************************)
\* the run in progress or last finished went through without an error
BatchCompleted ==
  /\ ~batch.isBatching
  /\ batch.archive # Absent

\* the jobs whose PNG is an entry of the ZIP zip
JobsIn(zip) == {zip[k].data.job : k \in 1..Len(zip)}

\* the count the message of a completed run reports
ReportedCount == Get(batch.batchMessage).N

\* the catch block of the run in progress or last finished has run: the
\* message is the error of an export
BatchFailed ==
  /\ batch.jobs # <<>>
  /\ batch.batchMessage # Absent
  /\ Get(batch.batchMessage).text \notin {"Preparing ZIP...", "Generated N PNGs."}

\* the file names of the entries of the ZIP zip
NamesIn(zip) == {zip[k].name : k \in 1..Len(zip)}

\* C30: a batch run over N parsed jobs that completes without an error
\* downloads a ZIP with exactly N entries, one PNG per job, the N of its
\* "Generated N PNGs." message, whatever the jobs, jobs of one slug exported
\* within one clock second included; and after a job's export fails no ZIP
\* is downloaded and isBatching is false again.
C30_BatchArchive ==
  /\ BatchCompleted =>
       /\ Len(Get(batch.archive)) = Len(batch.jobs)
       /\ JobsIn(Get(batch.archive)) = 1..Len(batch.jobs)
       /\ ReportedCount = Len(batch.jobs)
  /\ BatchFailed => batch.archive = Absent /\ ~batch.isBatching

\* what does hold of a completed run: the message reports the number of
\* jobs, and the ZIP has one entry per file name, each the PNG of the last
\* job that was given the name
BatchCompletedReportsJobs ==
  BatchCompleted =>
    /\ ReportedCount = Len(batch.jobs)
    /\ Len(Get(batch.archive)) = Cardinality(NamesIn(Get(batch.archive)))
    /\ Len(Get(batch.archive)) <= Len(batch.jobs)
    /\ Len(batch.jobs) \in JobsIn(Get(batch.archive))
    /\ \A k \in 1..Len(Get(batch.archive)) :
         Get(batch.archive)[k].data.rendered.text
           = batch.jobs[Get(batch.archive)[k].data.job].url

\* the failure half of C30 holds: after the catch block no ZIP is downloaded
\* and isBatching is false
BatchFailureDownloadsNothing ==
  BatchFailed => batch.archive = Absent /\ ~batch.isBatching

\* a completed run of two jobs with one slug, exported within one second:
\* "Generated 2 PNGs." over a ZIP of one entry
BatchEntryOverwritten ==
  /\ BatchCompleted
  /\ Len(batch.jobs) = 2
  /\ batch.jobs[1].slug = batch.jobs[2].slug
  /\ batch.seconds = 0
  /\ ReportedCount = 2
  /\ Len(Get(batch.archive)) = 1

\* jobs of one slug exported in different seconds keep their entries
BatchEntriesKept ==
  /\ BatchCompleted
  /\ Len(batch.jobs) = 2
  /\ batch.jobs[1].slug = batch.jobs[2].slug
  /\ Len(Get(batch.archive)) = 2

\* a run that failed at its second job
BatchFailedMidway ==
  /\ BatchFailed
  /\ Len(batch.jobs) >= 2
  /\ batch.jobs[1].url.encodable
  /\ batch.zip # <<>>
====
